---------------------------- MODULE Spec2Model ----------------------------
(***************************************************************************)
(* A model of the wagyu wallet toolkit.                                    *)
(*                                                                         *)
(* Part 1: the Ethereum transaction pipeline of                            *)
(* ethereum/src/transaction.rs: new, sign, to_transaction_bytes,           *)
(* from_transaction_bytes, with the u32 helpers to_bytes / from_bytes.     *)
(*                                                                         *)
(* Part 2: derivation-path text of bitcoin/src/derivation_path.rs.         *)
(* Part 3: the extended public key of ethereum/src/extended_public_key.rs: *)
(* ckd_pub, derivation_path, from_str and Display.                         *)
(* Part 4: the derivation presets of wagyu/cli/ethereum.rs.                *)
(*                                                                         *)
(* Byte strings (Vec<u8>) are sequences of 0..255.  A u32 is kept at its   *)
(* width as its four little-endian bytes, so that 32-bit overflow is       *)
(* computed and not assumed away.  Option<T> is the empty sequence (None)  *)
(* or a one-element sequence (Some).                                       *)
(***************************************************************************)
EXTENDS Integers, Sequences, FiniteSets, TLC

VARIABLES
    chain,    \* N::CHAIN_ID of the network type N, a u32
    cur,      \* Option<T>: the value the caller holds (a transaction in Part 1)
    wire,     \* the serialized form the caller holds: bytes in Part 1, text later
    out,      \* the last operation: its name, &self, argument and result
    tampers,  \* how many times the serialized bytes were altered in transit
    calls     \* how many successive child derivations the caller has asked for

vars == <<chain, cur, wire, out, tampers, calls>>

----------------------------------------------------------------------------
(* Bytes and fixed-width integers                                          *)

Byte == 0..255

Rep(n, x) == [i \in 1..n |-> x]

\* Minimal big-endian bytes of a natural number (zero is the empty string):
\* what rlp's Encodable for U256 hands to the encoder.
RECURSIVE BEBytes(_)
BEBytes(n) == IF n = 0 THEN <<>> ELSE BEBytes(n \div 256) \o <<n % 256>>

\* U256::from(&[u8]): the big-endian value of a byte slice.
RECURSIVE FromBE(_)
FromBE(b) ==
    IF b = <<>> THEN 0 ELSE FromBE(SubSeq(b, 1, Len(b) - 1)) * 256 + b[Len(b)]

\* A u32 as its four little-endian bytes (value.to_le_bytes()).
U32(n) == << n % 256, (n \div 256) % 256, (n \div 65536) % 256, (n \div 16777216) % 256 >>

\* Little-endian addition of equal-length byte strings; the result is one
\* byte longer, its last byte the carry out.
RECURSIVE AddLE(_, _, _)
AddLE(a, b, c) ==
    IF a = <<>> THEN <<c>>
    ELSE LET t == a[1] + b[1] + c
         IN  <<t % 256>> \o AddLE(Tail(a), Tail(b), t \div 256)

\* Little-endian subtraction a - b; the last byte of the result is the borrow out.
RECURSIVE SubLE(_, _, _)
SubLE(a, b, c) ==
    IF a = <<>> THEN <<c>>
    ELSE LET t == a[1] - b[1] - c
         IN  <<(t + 256) % 256>> \o SubLE(Tail(a), Tail(b), IF t < 0 THEN 1 ELSE 0)

\* u32 + u32 and u32 - u32: the wrapped value and whether the operation overflowed.
U32Add(a, b) ==
    LET r == AddLE(a, b, 0) IN [val |-> SubSeq(r, 1, 4), overflow |-> r[5] = 1]

U32Sub(a, b) ==
    LET r == SubLE(a, b, 0) IN [val |-> SubSeq(r, 1, 4), overflow |-> r[5] = 1]

\* A byte string without its trailing zero bytes: the natural number a
\* little-endian string denotes, whatever its length.
RECURSIVE NatLE(_)
NatLE(b) ==
    IF b = <<>> THEN <<>>
    ELSE IF b[Len(b)] = 0 THEN NatLE(SubSeq(b, 1, Len(b) - 1)) ELSE b

\* Unbounded addition of little-endian naturals (no width, no wrap-around).
NatAdd(a, b) ==
    LET n  == IF Len(a) > Len(b) THEN Len(a) ELSE Len(b)
        pa == a \o Rep(n - Len(a), 0)
        pb == b \o Rep(n - Len(b), 0)
    IN  NatLE(AddLE(pa, pb, 0))

----------------------------------------------------------------------------
(* Results                                                                 *)

NoErr == [kind |-> "", n |-> 0]

Ok(x)     == [tag |-> "Ok",    val |-> <<x>>, err |-> NoErr]
Err(k, n) == [tag |-> "Err",   val |-> <<>>,  err |-> [kind |-> k, n |-> n]]
Abort(k)  == [tag |-> "Abort", val |-> <<>>,  err |-> [kind |-> k, n |-> 0]]

\* The `?` operator: an Err or a panic of an inner call is the outcome of the caller.
Failed(r) == r.tag # "Ok"

----------------------------------------------------------------------------
(* to_bytes / from_bytes                                                   *)

to_bytes(value) ==
    IF value[2] = 0 /\ value[3] = 0 /\ value[4] = 0
    THEN Ok(<<value[1]>>)                               \* 0..=255
    ELSE IF value[3] = 0 /\ value[4] = 0
         THEN Ok(<<value[1], value[2]>>)                \* 256..=65535
         ELSE Ok(value)

from_bytes(value) ==
    IF Len(value) <= 4
    THEN Ok(value \o Rep(4 - Len(value), 0))
    ELSE Err("Message", 0)

----------------------------------------------------------------------------
(* RLP, as the rlp crate's RlpStream writes it and decode_list reads it    *)

RECURSIVE Concat(_)
Concat(ss) == IF ss = <<>> THEN <<>> ELSE Head(ss) \o Concat(Tail(ss))

\* RlpStream::append of a byte string (encoder().encode_value).
RlpValue(b) ==
    IF Len(b) = 1 /\ b[1] < 128 THEN b
    ELSE IF Len(b) <= 55 THEN <<128 + Len(b)>> \o b
    ELSE LET l == BEBytes(Len(b)) IN <<183 + Len(l)>> \o l \o b

\* RlpStream::begin_list(n) followed by n appends, then out().
RlpList(items) ==
    LET payload == Concat([i \in 1..Len(items) |-> RlpValue(items[i])])
    IN  IF Len(payload) <= 55 THEN <<192 + Len(payload)>> \o payload
        ELSE LET l == BEBytes(Len(payload)) IN <<247 + Len(l)>> \o l \o payload

NoInfo == [ok |-> FALSE, hdr |-> 0, len |-> 0, list |-> FALSE]

\* The header of the item that starts at b[1] (PayloadInfo::from).
PayloadInfo(b) ==
    LET long(ll, isList) ==
            IF Len(b) < 1 + ll \/ b[2] = 0 THEN NoInfo
            ELSE [ok |-> TRUE, hdr |-> 1 + ll,
                  len |-> FromBE(SubSeq(b, 2, 1 + ll)), list |-> isList]
    IN  IF b = <<>> THEN NoInfo
        ELSE IF b[1] <= 127 THEN [ok |-> TRUE, hdr |-> 0, len |-> 1, list |-> FALSE]
        ELSE IF b[1] <= 183 THEN [ok |-> TRUE, hdr |-> 1, len |-> b[1] - 128, list |-> FALSE]
        ELSE IF b[1] <= 191 THEN long(b[1] - 183, FALSE)
        ELSE IF b[1] <= 247 THEN [ok |-> TRUE, hdr |-> 1, len |-> b[1] - 192, list |-> TRUE]
        ELSE long(b[1] - 247, TRUE)

\* The byte-string items of a list payload, or failure when an item is
\* malformed, is a nested list, or is a single byte wrapped in a header.
RECURSIVE RlpItems(_)
RlpItems(p) ==
    IF p = <<>> THEN [ok |-> TRUE, items |-> <<>>]
    ELSE LET info == PayloadInfo(p)
             stop == info.hdr + info.len
         IN  IF ~info.ok \/ info.list \/ Len(p) < stop
                \/ (info.hdr = 1 /\ info.len = 1 /\ p[2] < 128)
             THEN [ok |-> FALSE, items |-> <<>>]
             ELSE LET rest == RlpItems(SubSeq(p, stop + 1, Len(p)))
                  IN  [ok |-> rest.ok,
                       items |-> <<SubSeq(p, info.hdr + 1, stop)>> \o rest.items]

\* rlp::decode_list::<Vec<u8>>: the items, or a panic ("trusted rlp should
\* be valid") on input that is not a list of byte strings.
decode_list(b) ==
    LET info == PayloadInfo(b)
    IN  IF ~info.ok \/ ~info.list \/ Len(b) < info.hdr + info.len
        THEN Abort("trusted rlp should be valid")
        ELSE LET r == RlpItems(SubSeq(b, info.hdr + 1, info.hdr + info.len))
             IN  IF r.ok THEN Ok(r.items) ELSE Abort("trusted rlp should be valid")

----------------------------------------------------------------------------
(* Keccak-256 and recoverable ECDSA, scaled down                           *)
(*                                                                         *)
(* The curve is replaced by the additive group of integers modulo a small  *)
(* prime with generator 1: the public key of sk is sk, the x coordinate    *)
(* of a point R is min(R, -R) (R and -R share it), and the low bit of the  *)
(* recovery id tells R from -R.  Signing and recovery are the ECDSA        *)
(* equations over that group.                                              *)

GroupOrder == 13

Half == (GroupOrder - 1) \div 2

Inv(x) == CHOOSE y \in 1..(GroupOrder - 1) : (x * y) % GroupOrder = 1

XOf(R) == IF R <= Half THEN R ELSE GroupOrder - R

RECURSIVE WeightedSum(_, _)
WeightedSum(b, i) ==
    IF i > Len(b) THEN 0 ELSE b[i] * (1 + (i % 5)) + WeightedSum(b, i + 1)

\* tiny_keccak::keccak256: a digest of the bytes.
keccak256(b) == WeightedSum(b, 1) % 251

\* secp256k1::Message::from_slice: the digest as a scalar.
MsgScalar(d) == d % GroupOrder

\* A 32-byte big-endian scalar, as serialize_compact writes r and s.
Scalar32(x) == Rep(31, 0) \o <<x>>

\* EthereumPublicKey::to_address(Standard): 20 bytes derived from the key.
AddressOf(pub) == Rep(19, 238) \o <<pub>>

\* EthereumPrivateKey::to_address(Standard).
to_address(sk) == Ok(AddressOf(sk))

\* Secp256k1::sign_recoverable(msg, sk).serialize_compact(): the recovery id
\* and the 64 bytes r || s.  The nonce is a deterministic function of the
\* message and the key; a nonce giving s = 0 is skipped; s is normalized to
\* the lower half, which flips the recovery id.
sign_recoverable(h, sk) ==
    LET nonce(j) == 1 + ((h + 7 * sk + j) % (GroupOrder - 1))
        sOf(k)   == (Inv(k) * (h + XOf(k) * sk)) % GroupOrder
        j0       == CHOOSE j \in 0..(GroupOrder - 2) :
                       /\ sOf(nonce(j)) # 0
                       /\ \A i \in 0..(j - 1) : sOf(nonce(i)) = 0
        k        == nonce(j0)
        s0       == sOf(k)
        id0      == IF k <= Half THEN 0 ELSE 1
        s        == IF s0 > Half THEN GroupOrder - s0 ELSE s0
        id       == IF s0 > Half THEN 1 - id0 ELSE id0
    IN  [recid |-> id, sig |-> Scalar32(XOf(k)) \o Scalar32(s)]

\* RecoveryId::from_i32(x as i32) of a u32 x: ids 0 to 3 are accepted.
RecoveryId_from_i32(x) ==
    IF x[1] <= 3 /\ x[2] = 0 /\ x[3] = 0 /\ x[4] = 0
    THEN Ok(x[1]) ELSE Err("InvalidRecoveryId", 0)

\* The largest r for which the lifted x coordinate r + n is still a field
\* element, so that recovery ids 2 and 3 name a point.
LiftMax == 1

\* RecoverableSignature::from_compact followed by Secp256k1::recover: the
\* public key, or InvalidSignature when the 64 bytes do not parse, r or s is
\* zero or not below the group order, no point has the x coordinate the
\* recovery id names, or the recovered point is the identity.
recover(h, sig, recid) ==
    IF Len(sig) # 64 THEN Err("InvalidSignature", 0)
    ELSE LET r     == sig[32]
             s     == sig[64]
             high  == \E i \in (1..31) \cup (33..63) : sig[i] # 0
             x     == IF recid < 2 THEN r ELSE 1 + ((r + GroupOrder) % Half)
             onCrv == IF recid < 2 THEN r <= Half ELSE r <= LiftMax
             R     == IF recid % 2 = 0 THEN x ELSE GroupOrder - x
             Q     == (Inv(r) * (s * R + (GroupOrder - h))) % GroupOrder
         IN  IF high \/ r = 0 \/ s = 0 \/ r >= GroupOrder \/ s >= GroupOrder
                \/ ~onCrv
             THEN Err("InvalidSignature", 0)
             ELSE IF Q = 0 THEN Err("InvalidSignature", 0) ELSE Ok(Q)

\* EthereumAddress::from_str(hex::encode(bytes)): 40 hex characters.
EthereumAddress_from_str(b) ==
    IF Len(b) = 20 THEN Ok(b) ELSE Err("InvalidCharacterLength", 2 * Len(b))

----------------------------------------------------------------------------
(* EthereumTransaction<N>                                                  *)

None == <<>>

Some(x) == <<x>>

\* U256::zero() for the empty item, U256::from(slice) otherwise.
U256_from(item) == IF item = <<>> THEN 0 ELSE FromBE(item)

\* v.to_i32() as u32 + N::CHAIN_ID * 2 + 35, in u32 arithmetic: with overflow
\* checks the first overflowing operation panics, without them it wraps.
eip155_v(N, checks, recid) ==
    LET dbl == U32Add(N, N)
        a   == U32Add(U32(recid), dbl.val)
        b   == U32Add(a.val, U32(35))
    IN  IF checks /\ (dbl.overflow \/ a.overflow \/ b.overflow)
        THEN Abort("arithmetic overflow")
        ELSE Ok(b.val)

\* Mutant of eip155_recovery_value: the chain id is not doubled.
eip155_recovery_value_single(N, checks, v) ==
    LET a == U32Sub(v, N)
        b == U32Sub(a.val, U32(35))
    IN  IF checks /\ (a.overflow \/ b.overflow)
        THEN Abort("arithmetic overflow")
        ELSE Ok(b.val)

\* (v - N::CHAIN_ID * 2 - 35) as i32, in u32 arithmetic.
eip155_recovery_value(N, checks, v) ==
    LET dbl == U32Add(N, N)
        a   == U32Sub(v, dbl.val)
        b   == U32Sub(a.val, U32(35))
    IN  IF checks /\ (dbl.overflow \/ a.overflow \/ b.overflow)
        THEN Abort("arithmetic overflow")
        ELSE Ok(b.val)

\* Mutant of new: the receiver is also stored as the sender.
new_with_sender(receiver, amount, parameters) ==
    Ok([sender     |-> Some(receiver),
        receiver   |-> receiver,
        amount     |-> amount,
        parameters |-> parameters,
        signature  |-> None])

new(receiver, amount, parameters) ==
    Ok([sender     |-> None,
        receiver   |-> receiver,
        amount     |-> amount,
        parameters |-> parameters,
        signature  |-> None])

\* Mutant of encode_transaction: gas is appended before gas_price.
encode_transaction_swapped(receiver, amount, parameters) ==
    << BEBytes(parameters.nonce),
       BEBytes(parameters.gas),
       BEBytes(parameters.gas_price),
       receiver,
       BEBytes(amount),
       parameters.data >>

\* The six leading items of either encoding, in the order they are appended.
encode_transaction(receiver, amount, parameters) ==
    << BEBytes(parameters.nonce),
       BEBytes(parameters.gas_price),
       BEBytes(parameters.gas),
       receiver,
       BEBytes(amount),
       parameters.data >>

\* append(&0u8) writes the empty string: rlp encodes the integer zero so.
raw_transaction(N, receiver, amount, parameters) ==
    LET c == to_bytes(N)
    IN  IF Failed(c) THEN c
        ELSE Ok(RlpList(encode_transaction(receiver, amount, parameters)
                        \o << c.val[1], <<>>, <<>> >>))

\* Mutant of signed_transaction: v is written again from its u32 value.
signed_transaction_normal_v(receiver, amount, parameters, signature) ==
    Ok(RlpList(encode_transaction(receiver, amount, parameters)
               \o << to_bytes(from_bytes(signature.v).val[1]).val[1],
                     signature.r, signature.s >>))

signed_transaction(receiver, amount, parameters, signature) ==
    Ok(RlpList(encode_transaction(receiver, amount, parameters)
               \o << signature.v, signature.r, signature.s >>))

to_transaction_bytes(N, self) ==
    IF self.signature # None
    THEN signed_transaction(self.receiver, self.amount, self.parameters,
                            self.signature[1])
    ELSE raw_transaction(N, self.receiver, self.amount, self.parameters)

to_transaction_hash(N, self) ==
    LET b == to_transaction_bytes(N, self)
    IN  IF Failed(b) THEN b ELSE Ok(keccak256(b.val[1]))

\* Mutant of transaction_state: a signed transaction is signed again.
transaction_state_resign(self) ==
    IF self.sender # None /\ self.signature # None THEN "Raw"
    ELSE IF self.sender # None \/ self.signature # None THEN "Invalid"
    ELSE "Raw"

\* Mutant of transaction_state: one field set counts as signed.
transaction_state_lenient(self) ==
    IF self.sender # None \/ self.signature # None THEN "Signed" ELSE "Raw"

\* The match of sign on (&self.sender, &self.signature).
transaction_state(self) ==
    IF self.sender # None /\ self.signature # None THEN "Signed"
    ELSE IF self.sender # None \/ self.signature # None THEN "Invalid"
    ELSE "Raw"

\* Mutant of with_signature: the sender is not set.
with_signature_only(self, sender, v, signature) ==
    [self EXCEPT !.signature = Some([v |-> v,
                                     r |-> SubSeq(signature, 1, 32),
                                     s |-> SubSeq(signature, 33, 64)])]

\* The clone of self that sign fills in: the sender, and v with the two
\* halves of the compact signature.
with_signature(self, sender, v, signature) ==
    [self EXCEPT !.sender    = Some(sender),
                 !.signature = Some([v |-> v,
                                     r |-> SubSeq(signature, 1, 32),
                                     s |-> SubSeq(signature, 33, 64)])]

sign(N, checks, self, private_key) ==
    IF transaction_state(self) = "Signed" THEN Ok(self)
    ELSE IF transaction_state(self) = "Invalid"
    THEN Err("InvalidTransactionState", 0)
    ELSE LET hash == to_transaction_hash(N, self)
         IN  IF Failed(hash) THEN hash
             ELSE LET sg     == sign_recoverable(MsgScalar(hash.val[1]), private_key)
                      sender == to_address(private_key)
                      v32    == eip155_v(N, checks, sg.recid)
                      v      == IF Failed(v32) THEN v32 ELSE to_bytes(v32.val[1])
                  IN  IF Failed(sender) THEN sender
                      ELSE IF Failed(v) THEN v
                      ELSE Ok(with_signature(self, sender.val[1], v.val[1], sg.sig))

\* The signed branch of from_transaction_bytes: recover the sender.
from_signed_items(N, checks, list, receiver, amount, parameters) ==
    LET v == from_bytes(list[7])
    IN  IF Failed(v) THEN v
        ELSE LET rv == eip155_recovery_value(N, checks, v.val[1])
             IN  IF Failed(rv) THEN rv
                 ELSE LET recovery_id == RecoveryId_from_i32(rv.val[1])
                          signature   == list[8] \o list[9]
                          raw         == [sender |-> None, receiver |-> receiver,
                                          amount |-> amount, parameters |-> parameters,
                                          signature |-> None]
                          hash        == to_transaction_hash(N, raw)
                      IN  IF Failed(recovery_id) THEN recovery_id
                          ELSE IF Failed(hash) THEN hash
                          ELSE LET public_key == recover(MsgScalar(hash.val[1]),
                                                         signature, recovery_id.val[1])
                               IN  IF Failed(public_key) THEN public_key
                                   ELSE Ok([sender     |-> Some(AddressOf(public_key.val[1])),
                                            receiver   |-> receiver,
                                            amount     |-> amount,
                                            parameters |-> parameters,
                                            signature  |-> Some([v |-> list[7],
                                                                 r |-> list[8],
                                                                 s |-> list[9]])])

\* Mutant of check_rlp_length: only a list that is too short is refused.
check_rlp_length_min(list) ==
    IF Len(list) < 9 THEN Err("InvalidRlpLength", Len(list)) ELSE Ok(list)

\* The length check on the decoded list.
check_rlp_length(list) ==
    IF Len(list) # 9 THEN Err("InvalidRlpLength", Len(list)) ELSE Ok(list)

from_transaction_bytes(N, checks, transaction) ==
    LET dl == decode_list(transaction)
    IN  IF Failed(dl) THEN dl
        ELSE LET list == dl.val[1]
             IN  IF Failed(check_rlp_length(list)) THEN check_rlp_length(list)
                 ELSE LET receiver == EthereumAddress_from_str(list[4])
                          amount   == U256_from(list[5])
                          parameters == [gas       |-> U256_from(list[3]),
                                         gas_price |-> U256_from(list[2]),
                                         nonce     |-> U256_from(list[1]),
                                         data      |-> list[6]]
                      IN  IF Failed(receiver) THEN receiver
                          ELSE IF list[8] = <<>> /\ list[9] = <<>>
                          THEN Ok([sender     |-> None,
                                   receiver   |-> receiver.val[1],
                                   amount     |-> amount,
                                   parameters |-> parameters,
                                   signature  |-> None])
                          ELSE from_signed_items(N, checks, list, receiver.val[1],
                                                 amount, parameters)

----------------------------------------------------------------------------
(* The values the operations are applied to                                *)

\* CHAIN_ID of Mainnet, Ropsten, Rinkeby, Goerli and Kovan.
ChainIds == {1, 3, 4, 5, 42}

Receivers == {Rep(20, 181), Rep(20, 82)}

Amounts == {1000}

Parameters ==
    { [gas |-> 21000, gas_price |-> 200, nonce |-> 0, data |-> <<84, 101>>],
      [gas |-> 21000, gas_price |-> 200, nonce |-> 11, data |-> <<>>] }

PrivateKeys == {2, 5}

\* The number of times the bytes may be altered between encoding and decoding.
MaxTamper == 1

\* The items an altered v may be set to: the EIP-155 values around
\* chain_id * 2 + 35, a two-byte spelling of the lowest, the empty string
\* and a string too long for a u32.
TamperedV(N) ==
    LET base == U32Add(U32Add(N, N).val, U32(35)).val
    IN  { to_bytes(U32Add(base, U32(d)).val).val[1] : d \in 0..4 }
        \cup { to_bytes(U32Sub(base, U32(1)).val).val[1],
               <<base[1], 0>>, <<>>, <<1, 0, 0, 0, 0>> }

\* What may happen to the items of a serialized transaction in transit:
\* the last item is lost, an item is added, an integer item gets a leading
\* zero byte, or v, r or s is replaced.
Tampered(N, items) ==
    { SubSeq(items, 1, Len(items) - 1), items \o << <<>> >> }
    \cup { [items EXCEPT ![i] = <<0>> \o items[i]] : i \in {1, 2, 3, 5} }
    \cup { [items EXCEPT ![7] = v] : v \in TamperedV(N) }
    \cup { [items EXCEPT ![8] = r] : r \in {<<>>, Scalar32(1)} }
    \cup { [items EXCEPT ![9] = <<>>] }

\* Whether u32 overflow panics (a build with overflow checks, the default of
\* a debug build) or wraps (the default of a release build).
OverflowChecks == BOOLEAN

Running == out.res.tag # "Abort"

----------------------------------------------------------------------------
(* The pipeline as a state machine                                         *)

Init ==
    /\ chain \in { U32(c) : c \in ChainIds }
    /\ cur = None
    /\ wire = <<>>
    /\ out = [op |-> "init", self |-> None, arg |-> <<>>, res |-> Ok(0)]
    /\ tampers = 0
    /\ calls = 0

New(receiver, amount, parameters) ==
    LET res == new(receiver, amount, parameters)
    IN  /\ Running
        /\ cur' = IF res.tag = "Ok" THEN Some(res.val[1]) ELSE cur
        /\ out' = [op |-> "new", self |-> None,
                   arg |-> <<receiver, amount, parameters>>, res |-> res]
        /\ wire' = <<>>
        /\ tampers' = 0
        /\ UNCHANGED <<chain, calls>>

Sign(private_key) ==
    /\ Running
    /\ cur # None
    /\ \E checks \in OverflowChecks :
          LET res == sign(chain, checks, cur[1], private_key)
          IN  /\ cur' = IF res.tag = "Ok" THEN Some(res.val[1]) ELSE cur
              /\ out' = [op |-> "sign", self |-> cur, arg |-> <<private_key>>, res |-> res]
    /\ UNCHANGED <<chain, wire, tampers, calls>>

ToTransactionBytes ==
    /\ Running
    /\ cur # None
    /\ LET res == to_transaction_bytes(chain, cur[1])
       IN  /\ wire' = IF res.tag = "Ok" THEN res.val[1] ELSE wire
           /\ out' = [op |-> "to_transaction_bytes", self |-> cur, arg |-> <<>>, res |-> res]
    /\ UNCHANGED <<chain, cur, tampers, calls>>

FromTransactionBytes ==
    /\ Running
    /\ wire # <<>>
    /\ \E checks \in OverflowChecks :
          LET res == from_transaction_bytes(chain, checks, wire)
          IN  /\ cur' = IF res.tag = "Ok" THEN Some(res.val[1]) ELSE cur
              /\ out' = [op |-> "from_transaction_bytes", self |-> None,
                         arg |-> <<wire>>, res |-> res]
    /\ UNCHANGED <<chain, wire, tampers, calls>>

Tamper ==
    /\ Running
    /\ wire # <<>>
    /\ tampers < MaxTamper
    /\ \E items \in Tampered(chain, decode_list(wire).val[1]) :
          wire' = RlpList(items)
    /\ tampers' = tampers + 1
    /\ out' = [op |-> "tamper", self |-> None, arg |-> <<wire>>, res |-> Ok(0)]
    /\ UNCHANGED <<chain, cur, calls>>

Next ==
    \/ \E receiver \in Receivers, amount \in Amounts, parameters \in Parameters :
          New(receiver, amount, parameters)
    \/ \E private_key \in PrivateKeys : Sign(private_key)
    \/ ToTransactionBytes
    \/ FromTransactionBytes
    \/ Tamper

Spec == Init /\ [][Next]_vars

----------------------------------------------------------------------------
(* sign on every value of the type                                         *)
(*                                                                         *)
(* The fields of EthereumTransaction are private and no constructor sets   *)
(* one of sender and signature without the other, yet sign has an arm for  *)
(* such values.  SpecAny applies sign to every value of the struct type.   *)

Signatures ==
    { [v |-> <<37>>, r |-> Scalar32(3), s |-> Scalar32(2)],
      [v |-> <<120>>, r |-> Scalar32(1), s |-> Scalar32(6)] }

AnyTransactions ==
    [sender     : {None} \cup { Some(AddressOf(sk)) : sk \in PrivateKeys },
     receiver   : Receivers,
     amount     : Amounts,
     parameters : Parameters,
     signature  : {None} \cup { Some(sg) : sg \in Signatures }]

InitAny ==
    /\ chain \in { U32(c) : c \in ChainIds }
    /\ cur \in { Some(t) : t \in AnyTransactions }
    /\ wire = <<>>
    /\ out = [op |-> "init", self |-> None, arg |-> <<>>, res |-> Ok(0)]
    /\ tampers = 0
    /\ calls = 0

NextAny == \E private_key \in PrivateKeys : Sign(private_key)

SpecAny == InitAny /\ [][NextAny]_vars

----------------------------------------------------------------------------
(* sign over the whole range of the chain id                               *)
(*                                                                         *)
(* CHAIN_ID is an associated u32 constant of the EthereumNetwork trait, so *)
(* a network type may carry any 32-bit value.  SpecWide signs on networks  *)
(* whose chain ids sit at the byte boundaries of v and at the top of the   *)
(* u32 range.                                                              *)

WideChainIds ==
    { U32(1), U32(42), U32(110), U32(32750), U32(2147483630),
      <<0, 0, 0, 128>>, <<255, 255, 255, 255>> }

InitWide ==
    /\ chain \in WideChainIds
    /\ cur = None
    /\ wire = <<>>
    /\ out = [op |-> "init", self |-> None, arg |-> <<>>, res |-> Ok(0)]
    /\ tampers = 0
    /\ calls = 0

NextWide ==
    \/ \E receiver \in Receivers, amount \in Amounts, parameters \in Parameters :
          New(receiver, amount, parameters)
    \/ \E private_key \in PrivateKeys : Sign(private_key)

SpecWide == InitWide /\ [][NextWide]_vars

----------------------------------------------------------------------------
(* Properties                                                              *)

IsRaw(t) == t.sender = None /\ t.signature = None

IsSigned(t) == t.sender # None /\ t.signature # None

ReturnsTransaction == out.op \in {"new", "sign", "from_transaction_bytes"}

\* C1: every transaction that new, sign or from_transaction_bytes returns,
\* and so every transaction the caller ever holds, has sender and signature
\* both absent or both present.
C1_SenderIffSignature ==
    /\ cur # None => (IsRaw(cur[1]) \/ IsSigned(cur[1]))
    /\ (ReturnsTransaction /\ out.res.tag = "Ok")
          => (IsRaw(out.res.val[1]) \/ IsSigned(out.res.val[1]))

\* A signed transaction rebuilt from bytes is held.
C1_Witness ==
    /\ out.op = "from_transaction_bytes"
    /\ out.res.tag = "Ok"
    /\ IsSigned(out.res.val[1])
    /\ cur = out.res.val

\* C2: new returns a raw transaction holding exactly its arguments; sign of a
\* raw transaction returns a signed one whose sender is the address of the
\* key and whose receiver, amount and parameters are those of the raw
\* transaction, which itself still has no sender.
C2_NewAndSignFrame ==
    /\ out.op = "new" =>
          /\ out.res.tag = "Ok"
          /\ IsRaw(out.res.val[1])
          /\ out.res.val[1].receiver = out.arg[1]
          /\ out.res.val[1].amount = out.arg[2]
          /\ out.res.val[1].parameters = out.arg[3]
          /\ cur = out.res.val
    /\ (out.op = "sign" /\ IsRaw(out.self[1])) =>
          /\ out.res.tag = "Ok"
          /\ IsSigned(out.res.val[1])
          /\ out.res.val[1].sender = Some(AddressOf(out.arg[1]))
          /\ out.res.val[1].receiver = out.self[1].receiver
          /\ out.res.val[1].amount = out.self[1].amount
          /\ out.res.val[1].parameters = out.self[1].parameters
          /\ out.self[1].sender = None
          /\ out.self[1].signature = None

\* A raw transaction made by new has been signed.
C2_Witness ==
    /\ out.op = "sign"
    /\ IsRaw(out.self[1])
    /\ out.res.tag = "Ok"
    /\ IsSigned(cur[1])

\* C3: sign of a signed transaction succeeds and returns its input, whatever
\* the key.
C3_SignOfSignedIsNoOp ==
    (out.op = "sign" /\ IsSigned(out.self[1])) =>
        /\ out.res = Ok(out.self[1])
        /\ cur = out.self

\* A signed transaction has been signed again with a key other than the one
\* whose address is its sender.
C3_Witness ==
    /\ out.op = "sign"
    /\ IsSigned(out.self[1])
    /\ out.self[1].sender # Some(AddressOf(out.arg[1]))
    /\ out.res.tag = "Ok"

ExactlyOneSet(t) == (t.sender = None) # (t.signature = None)

\* C4: sign of a transaction with exactly one of sender and signature set
\* returns InvalidTransactionState and no transaction, whatever the key.
C4_SignOfInvalidFails ==
    (out.op = "sign" /\ ExactlyOneSet(out.self[1])) =>
        /\ out.res = Err("InvalidTransactionState", 0)
        /\ out.res.val = <<>>
        /\ cur = out.self

\* sign has been applied to a transaction with a signature and no sender.
C4_Witness ==
    /\ out.op = "sign"
    /\ out.self[1].sender = None
    /\ out.self[1].signature # None
    /\ out.res.tag = "Err"


\* The recovery id the signer returned when out.self was signed with out.arg.
SignerRecoveryId ==
    sign_recoverable(MsgScalar(to_transaction_hash(chain, out.self[1]).val[1]),
                     out.arg[1]).recid

\* C5: for every u32 chain id, sign of a raw transaction stores as v the
\* integer recovery_id + chain_id * 2 + 35, not wrapped to 32 bits, in the
\* encoding of to_bytes, from which from_bytes gives that integer back.
C5_VIsEip155 ==
    (out.op = "sign" /\ IsRaw(out.self[1])) =>
        /\ out.res.tag = "Ok"
        /\ LET v    == out.res.val[1].signature[1].v
               back == from_bytes(v)
           IN  /\ back.tag = "Ok"
               /\ NatLE(back.val[1])
                     = NatAdd(NatAdd(NatLE(U32(SignerRecoveryId)), NatAdd(chain, chain)),
                              <<35>>)
               /\ to_bytes(back.val[1]) = Ok(v)

\* The natural number a little-endian byte string denotes.
RECURSIVE FromLE(_)
FromLE(b) == IF b = <<>> THEN 0 ELSE b[1] + 256 * FromLE(Tail(b))

NoLeadingZero(item) == item = <<>> \/ item[1] # 0

\* An item that is the canonical RLP integer n.
IsInteger(item, n) == NoLeadingZero(item) /\ FromBE(item) = n

\* C6: to_transaction_bytes emits a list of exactly 9 items: nonce,
\* gas_price, gas, receiver, amount, data, then the stored v, r, s of a
\* transaction with a signature, and (chain_id, 0, 0) of one without.
C6_NineItems ==
    out.op = "to_transaction_bytes" =>
        /\ out.res.tag = "Ok"
        /\ wire = out.res.val[1]
        /\ LET t  == out.self[1]
               dl == decode_list(wire)
           IN  /\ dl.tag = "Ok"
               /\ Len(dl.val[1]) = 9
               /\ LET items == dl.val[1]
                  IN  /\ IsInteger(items[1], t.parameters.nonce)
                      /\ IsInteger(items[2], t.parameters.gas_price)
                      /\ IsInteger(items[3], t.parameters.gas)
                      /\ items[4] = t.receiver
                      /\ IsInteger(items[5], t.amount)
                      /\ items[6] = t.parameters.data
                      /\ t.signature # None =>
                            /\ items[7] = t.signature[1].v
                            /\ items[8] = t.signature[1].r
                            /\ items[9] = t.signature[1].s
                      /\ t.signature = None =>
                            /\ IsInteger(items[7], FromLE(chain))
                            /\ items[8] = <<>>
                            /\ items[9] = <<>>

\* A signed transaction with a non-zero nonce has been serialized.
C6_Witness ==
    /\ out.op = "to_transaction_bytes"
    /\ out.self[1].signature # None
    /\ out.self[1].parameters.nonce # 0
    /\ wire # <<>>

\* C7: from_transaction_bytes of a list of n # 9 items returns
\* InvalidRlpLength(n) and no transaction.
C7_InvalidRlpLength ==
    (out.op = "from_transaction_bytes" /\ decode_list(out.arg[1]).tag = "Ok") =>
        LET n == Len(decode_list(out.arg[1]).val[1])
        IN  n # 9 => /\ out.res = Err("InvalidRlpLength", n)
                     /\ out.res.val = <<>>

\* A list of 10 items has been refused.
C7_Witness ==
    /\ out.op = "from_transaction_bytes"
    /\ Len(decode_list(out.arg[1]).val[1]) = 10
    /\ out.res.tag = "Err"

\* The items from_transaction_bytes was given, when they are 9.
GivenNine ==
    /\ out.op = "from_transaction_bytes"
    /\ decode_list(out.arg[1]).tag = "Ok"
    /\ Len(decode_list(out.arg[1]).val[1]) = 9

Given == decode_list(out.arg[1]).val[1]

\* C8: from_transaction_bytes of 9 items with a non-empty r or s returns an
\* error value whenever v - chain_id * 2 - 35 is not 0 or 1; it neither
\* accepts the transaction nor aborts.
C8_RecoveryIdRejected ==
    ( /\ GivenNine
      /\ Given[8] # <<>> \/ Given[9] # <<>>
      /\ FromLE(Given[7]) - FromLE(chain) * 2 - 35 \notin {0, 1} )
    => out.res.tag = "Err"

RawTransactions ==
    { new(receiver, amount, parameters).val[1] :
        receiver \in Receivers, amount \in Amounts, parameters \in Parameters }

\* C9: the bytes of sign(tx, sk), for a raw tx and a key sk, decode to a
\* transaction equal to sign(tx, sk), whose sender is the address of sk.
C9_SignedRoundTrip ==
    out.op = "from_transaction_bytes" =>
        \A t \in RawTransactions, sk \in PrivateKeys :
            LET signed == sign(chain, TRUE, t, sk)
            IN  ( /\ signed.tag = "Ok"
                  /\ out.arg[1] = to_transaction_bytes(chain, signed.val[1]).val[1] )
                => /\ out.res = signed
                   /\ out.res.val[1].sender = Some(AddressOf(sk))

\* The bytes of a transaction signed by sign have been decoded.
C9_Witness ==
    /\ out.op = "from_transaction_bytes"
    /\ out.res.tag = "Ok"
    /\ \E t \in RawTransactions, sk \in PrivateKeys :
          out.arg[1] = to_transaction_bytes(chain, sign(chain, TRUE, t, sk).val[1]).val[1]

\* C10 as stated: whatever bytes decode successfully, encoding the decoded
\* transaction gives the same bytes back.
C10_EveryDecodedRoundTrips ==
    (out.op = "from_transaction_bytes" /\ out.res.tag = "Ok") =>
        to_transaction_bytes(chain, out.res.val[1]) = Ok(out.arg[1])

\* The bytes carry nonce, gas_price, gas and amount without a leading zero
\* byte, and, when r and s are both empty, to_bytes(chain_id) as their
\* seventh item.
CanonicalItems ==
    /\ \A i \in {1, 2, 3, 5} : NoLeadingZero(Given[i])
    /\ (Given[8] = <<>> /\ Given[9] = <<>>) => Ok(Given[7]) = to_bytes(chain)

\* C10 as amended: bytes that decode successfully and carry canonical
\* integers, and the chain id placeholder when unsigned, are given back by
\* encoding the decoded transaction.
C10_CanonicalRoundTrips ==
    (out.op = "from_transaction_bytes" /\ out.res.tag = "Ok" /\ CanonicalItems) =>
        to_transaction_bytes(chain, out.res.val[1]) = Ok(out.arg[1])

\* Bytes altered in transit that still carry canonical items have been
\* decoded.
C10_Witness ==
    /\ out.op = "from_transaction_bytes"
    /\ out.res.tag = "Ok"
    /\ tampers > 0
    /\ CanonicalItems


----------------------------------------------------------------------------
(* Part 2.  Text                                                           *)
(*                                                                         *)
(* A &str is the sequence of its characters, each a one-character string.  *)

Digits == <<"0", "1", "2", "3", "4", "5", "6", "7", "8", "9">>

IsDigit(c) == \E d \in 1..10 : Digits[d] = c

\* char::to_digit(10) of a decimal digit.
DigitValue(c) == (CHOOSE d \in 1..10 : Digits[d] = c) - 1

Reverse(s) == [i \in 1..Len(s) |-> s[Len(s) + 1 - i]]

IsZero(b) == \A i \in 1..Len(b) : b[i] = 0

\* str::split("/"): the pieces between the slashes, at least one.
RECURSIVE split(_)
split(s) ==
    IF s = <<>> THEN << <<>> >>
    ELSE LET rest == split(Tail(s))
         IN  IF Head(s) = "/" THEN << <<>> >> \o rest
             ELSE << <<Head(s)>> \o rest[1] >> \o Tail(rest)

\* str::contains of one character.
contains(s, c) == \E i \in 1..Len(s) : s[i] = c

\* Little-endian multiplication by a small number; the last byte of the
\* result is the carry out.
RECURSIVE MulLE(_, _, _)
MulLE(a, k, c) ==
    IF a = <<>> THEN <<c>>
    ELSE IF Len(a) = 1 THEN << (a[1] * k + c) % 256, (a[1] * k + c) \div 256 >>
    ELSE LET half == Len(a) \div 2
             low  == MulLE(SubSeq(a, 1, half), k, c)
         IN  SubSeq(low, 1, half) \o MulLE(SubSeq(a, half + 1, Len(a)), k, low[half + 1])

\* u32::checked_mul by a small number.
U32Mul(a, k) ==
    LET r == MulLE(a, k, 0) IN [val |-> SubSeq(r, 1, 4), overflow |-> r[5] # 0]

\* The digit loop of u32::from_str: result = result * 10 + digit, checked.
RECURSIVE parse_digits(_, _)
parse_digits(digits, result) ==
    IF digits = <<>> THEN Ok(result)
    ELSE IF ~IsDigit(Head(digits)) THEN Err("InvalidDigit", 0)
    ELSE LET m == U32Mul(result, 10)
             a == U32Add(m.val, U32(DigitValue(Head(digits))))
         IN  IF m.overflow \/ a.overflow THEN Err("PosOverflow", 0)
             ELSE parse_digits(Tail(digits), a.val)

\* str::parse::<u32>(): decimal digits after an optional plus sign; a value
\* of 2^32 or more does not parse.
parse_u32(src) ==
    IF src = <<>> THEN Err("Empty", 0)
    ELSE IF Len(src) = 1 /\ src[1] \in {"+", "-"} THEN Err("InvalidDigit", 0)
    ELSE IF src[1] = "+" THEN parse_digits(Tail(src), U32(0))
    ELSE parse_digits(src, U32(0))

\* Division of a big-endian byte string by a small number, from the remainder
\* r carried in: the quotient (same length) and the remainder.
RECURSIVE DivBE(_, _, _)
DivBE(b, k, r) ==
    IF b = <<>> THEN [q |-> <<>>, r |-> r]
    ELSE IF Len(b) = 1 THEN [q |-> <<(r * 256 + b[1]) \div k>>, r |-> (r * 256 + b[1]) % k]
    ELSE LET half == Len(b) \div 2
             high == DivBE(SubSeq(b, 1, half), k, r)
             low  == DivBE(SubSeq(b, half + 1, Len(b)), k, high.r)
         IN  [q |-> high.q \o low.q, r |-> low.r]

RECURSIVE DecimalOf(_)
DecimalOf(b) ==
    IF IsZero(b) THEN <<>>
    ELSE LET d == DivBE(b, 10, 0) IN DecimalOf(d.q) \o <<Digits[d.r + 1]>>

\* format!("{}", value) of a u32.
u32_to_string(value) ==
    IF IsZero(value) THEN <<"0">> ELSE DecimalOf(Reverse(value))

----------------------------------------------------------------------------
(* ChildIndex (wagyu_model::derivation_path)                               *)

Normal(number) == [hardened |-> FALSE, number |-> number]

Hardened(number) == [hardened |-> TRUE, number |-> number]

\* The numeric part stored excludes the hardening bit.
from_normal(index) ==
    IF index[4] < 128 THEN Ok(Normal(index)) ELSE Err("InvalidChildNumber", index)

from_hardened(index) ==
    IF index[4] < 128 THEN Ok(Hardened(index)) ELSE Err("InvalidChildNumber", index)

\* Parsed from N, N' or Nh: the numeric prefix must parse as u32.
ChildIndex_from_str(inp) ==
    LET suffixed == inp # <<>> /\ inp[Len(inp)] \in {"'", "h"}
        number   == parse_u32(IF suffixed THEN SubSeq(inp, 1, Len(inp) - 1) ELSE inp)
    IN  IF Failed(number) THEN Err("InvalidChildNumberFormat", <<>>)
        ELSE IF suffixed THEN from_hardened(number.val[1])
        ELSE from_normal(number.val[1])

\* Rendered as N or N'.
ChildIndex_fmt(index) ==
    u32_to_string(index.number) \o (IF index.hardened THEN <<"'">> ELSE <<>>)

----------------------------------------------------------------------------
(* BitcoinDerivationPath                                                   *)

\* Mutant of collect: the error of the last part that does not parse.
RECURSIVE collect_last_error(_)
collect_last_error(parts) ==
    IF parts = <<>> THEN Ok(<<>>)
    ELSE LET index == ChildIndex_from_str(Head(parts))
             rest  == collect_last_error(Tail(parts))
         IN  IF Failed(rest) THEN rest
             ELSE IF Failed(index) THEN index
             ELSE Ok(<<index.val[1]>> \o rest.val[1])

\* parts.map(str::parse).collect::<Result<Vec<ChildIndex>, _>>(): the
\* indexes in order, or the error of the first part that does not parse.
RECURSIVE collect(_)
collect(parts) ==
    IF parts = <<>> THEN Ok(<<>>)
    ELSE LET index == ChildIndex_from_str(Head(parts))
         IN  IF Failed(index) THEN index
             ELSE LET rest == collect(Tail(parts))
                  IN  IF Failed(rest) THEN rest
                      ELSE Ok(<<index.val[1]>> \o rest.val[1])

\* Mutant of from_str: the components are parsed before the head is looked at.
BitcoinDerivationPath_from_str_head_last(path) ==
    LET parts == split(path)
        rest  == collect(Tail(parts))
    IN  IF Failed(rest) THEN rest
        ELSE IF parts[1] # <<"m">> THEN Err("InvalidDerivationPath", path)
        ELSE rest

BitcoinDerivationPath_from_str(path) ==
    LET parts == split(path)
    IN  IF parts[1] # <<"m">> THEN Err("InvalidDerivationPath", path)
        ELSE collect(Tail(parts))

\* Mutant of Display: the separator is written after each index.
RECURSIVE BitcoinDerivationPath_fmt_indexes_trailing(_)
BitcoinDerivationPath_fmt_indexes_trailing(path) ==
    IF path = <<>> THEN <<>>
    ELSE ChildIndex_fmt(Head(path)) \o <<"/">>
         \o BitcoinDerivationPath_fmt_indexes_trailing(Tail(path))

\* The loop of Display: a slash, then the index, for each index.
RECURSIVE BitcoinDerivationPath_fmt_indexes(_)
BitcoinDerivationPath_fmt_indexes(path) ==
    IF path = <<>> THEN <<>>
    ELSE <<"/">> \o ChildIndex_fmt(Head(path))
         \o BitcoinDerivationPath_fmt_indexes(Tail(path))

BitcoinDerivationPath_fmt(path) == <<"m">> \o BitcoinDerivationPath_fmt_indexes(path)

----------------------------------------------------------------------------
(* Derivation paths and path texts as a state machine                      *)

PathNumbers == { U32(0), U32(44), <<255, 255, 255, 127>> }

ChildIndexes == { Normal(n) : n \in PathNumbers } \cup { Hardened(n) : n \in PathNumbers }

\* The longest Vec<ChildIndex> a path is made from.
MaxPathLen == 2

UpTo(S, n) == UNION { [1..k -> S] : k \in 0..n }

WellFormedPaths == UpTo(ChildIndexes, MaxPathLen)

HeadTokens == { <<"m">>, <<>>, <<"n">>, <<"1">>, <<"0">> }

ComponentTokens ==
    { <<"0">>, <<"4", "4", "'">>, <<"1", "h">>, <<>>, <<"0", "x">>, <<"m">>,
      <<"2", "1", "4", "7", "4", "8", "3", "6", "4", "7">>,
      <<"2", "1", "4", "7", "4", "8", "3", "6", "4", "8">>,
      <<"2", "1", "4", "7", "4", "8", "3", "6", "4", "8", "'">>,
      <<"4", "2", "9", "4", "9", "6", "7", "2", "9", "5">>,
      <<"4", "2", "9", "4", "9", "6", "7", "2", "9", "6">>,
      <<"+", "5">>, <<"-", "1">>, <<"'">> }

\* The most components after the head of a path text.
MaxComponents == 2

RECURSIVE Slashed(_)
Slashed(tokens) ==
    IF tokens = <<>> THEN <<>> ELSE <<"/">> \o Head(tokens) \o Slashed(Tail(tokens))

PathTexts ==
    { head \o Slashed(tokens) :
        head \in HeadTokens, tokens \in UpTo(ComponentTokens, MaxComponents) }

InitPath ==
    /\ chain = U32(0)
    /\ cur = None
    /\ wire = <<>>
    /\ out = [op |-> "init", self |-> None, arg |-> <<>>, res |-> Ok(0)]
    /\ tampers = 0
    /\ calls = 0

\* BitcoinDerivationPath::from(Vec<ChildIndex>).
PathFrom(path) ==
    /\ out.op = "init"
    /\ cur' = Some(path)
    /\ wire' = <<>>
    /\ out' = [op |-> "from", self |-> None, arg |-> <<path>>, res |-> Ok(path)]
    /\ UNCHANGED <<chain, tampers, calls>>

\* path.to_string().
PathFmt ==
    /\ cur # None
    /\ wire' = BitcoinDerivationPath_fmt(cur[1])
    /\ out' = [op |-> "fmt", self |-> cur, arg |-> <<>>, res |-> Ok(wire')]
    /\ UNCHANGED <<chain, cur, tampers, calls>>

\* The caller is handed a text from outside.
PathInput(text) ==
    /\ out.op = "init"
    /\ cur' = None
    /\ wire' = text
    /\ out' = [op |-> "input", self |-> None, arg |-> <<>>, res |-> Ok(text)]
    /\ UNCHANGED <<chain, tampers, calls>>

\* BitcoinDerivationPath::from_str of the text the caller holds.
PathFromStr ==
    /\ out.op \in {"fmt", "input"}
    /\ out' = [op |-> "from_str", self |-> None, arg |-> <<wire>>,
               res |-> BitcoinDerivationPath_from_str(wire)]
    /\ UNCHANGED <<chain, cur, wire, tampers, calls>>

NextPath ==
    \/ \E path \in WellFormedPaths : PathFrom(path)
    \/ PathFmt
    \/ \E text \in PathTexts : PathInput(text)
    \/ PathFromStr

SpecPath == InitPath /\ [][NextPath]_vars

----------------------------------------------------------------------------
(* Properties of derivation-path text                                      *)

\* C11: for every well-formed derivation path p, the empty one included,
\* parsing the text Display renders gives back p, and the empty path renders
\* as m.
C11_PathRoundTrip ==
    (out.op = "from_str" /\ cur # None) =>
        /\ out.res.tag = "Ok"
        /\ out.res.val[1] = cur[1]
        /\ (cur[1] = <<>> => out.arg[1] = <<"m">>)

\* A rendered path of a hardened and a normal index has been parsed.
C11_Witness ==
    /\ out.op = "from_str"
    /\ cur # None
    /\ Len(cur[1]) = 2
    /\ cur[1][1].hardened
    /\ ~cur[1][2].hardened
    /\ out.arg[1] = BitcoinDerivationPath_fmt(cur[1])
    /\ out.res.tag = "Ok"

\* The text before the first slash.
FirstToken(text) ==
    LET slashes == { i \in 1..Len(text) : text[i] = "/" }
    IN  IF slashes = {} THEN text
        ELSE SubSeq(text, 1, (CHOOSE i \in slashes : \A j \in slashes : i <= j) - 1)

\* C12: from_str returns InvalidDerivationPath carrying the whole input
\* whenever the first slash-separated token is not exactly m, whatever the
\* later components are.
C12_HeadMustBeM ==
    (out.op = "from_str" /\ FirstToken(out.arg[1]) # <<"m">>) =>
        /\ out.res.tag = "Err"
        /\ out.res.err.kind = "InvalidDerivationPath"
        /\ out.res.err.n = out.arg[1]

\* A text with a wrong head and an ill-formed component has been parsed.
C12_Witness ==
    /\ out.op = "from_str"
    /\ out.arg[1] = <<"n", "/", "0", "x">>
    /\ out.res.err.kind = "InvalidDerivationPath"

\* A component without its hardening suffix, if it has one.
NumericPart(token) ==
    IF token # <<>> /\ token[Len(token)] \in {"'", "h"}
    THEN SubSeq(token, 1, Len(token) - 1) ELSE token

IsSuffixed(token) == NumericPart(token) # token

IsDecimal(b) == b # <<>> /\ \A i \in 1..Len(b) : IsDigit(b[i])

\* The natural number a digit string denotes, as little-endian bytes of
\* whatever length it takes.
RECURSIVE DecNat(_)
DecNat(b) ==
    IF b = <<>> THEN <<>>
    ELSE NatAdd(NatLE(MulLE(DecNat(SubSeq(b, 1, Len(b) - 1)), 10, 0)),
                NatLE(<<DigitValue(b[Len(b)])>>))

AtLeast2Pow31(n) == Len(n) > 4 \/ (Len(n) = 4 /\ n[4] >= 128)

AtLeast2Pow32(n) == Len(n) > 4

\* What a component is under a reading of the grammar: plus says whether a
\* plus sign may precede the digits, wide whether the numeric part may be
\* 2^32 or more and still count as a number.
Digits_of(token, plus) ==
    LET b == NumericPart(token)
    IN  IF plus /\ b # <<>> /\ b[1] = "+" THEN Tail(b) ELSE b

IsNumber(token, plus, wide) ==
    /\ IsDecimal(Digits_of(token, plus))
    /\ (wide \/ ~AtLeast2Pow32(DecNat(Digits_of(token, plus))))

IsValidComponent(token, plus, wide) ==
    /\ IsNumber(token, plus, wide)
    /\ ~AtLeast2Pow31(DecNat(Digits_of(token, plus)))

\* The outcome of from_str on a text whose head is m, under a reading.
ComponentsRule(plus, wide) ==
    LET tokens == Tail(split(out.arg[1]))
        bad    == { i \in 1..Len(tokens) : ~IsValidComponent(tokens[i], plus, wide) }
    IN  IF bad = {}
        THEN /\ out.res.tag = "Ok"
             /\ Len(out.res.val[1]) = Len(tokens)
             /\ \A i \in 1..Len(tokens) :
                   /\ out.res.val[1][i].hardened = IsSuffixed(tokens[i])
                   /\ NatLE(out.res.val[1][i].number) = DecNat(Digits_of(tokens[i], plus))
        ELSE LET first == CHOOSE i \in bad : \A j \in bad : i <= j
             IN  /\ out.res.tag = "Err"
                 /\ IF IsNumber(tokens[first], plus, wide)
                    THEN /\ out.res.err.kind = "InvalidChildNumber"
                         /\ NatLE(out.res.err.n) = DecNat(Digits_of(tokens[first], plus))
                    ELSE out.res.err.kind = "InvalidChildNumberFormat"

HeadIsM == out.op = "from_str" /\ FirstToken(out.arg[1]) = <<"m">>

----------------------------------------------------------------------------
(* Part 3.  The primitives under the extended public key                   *)
(*                                                                         *)
(* secp256k1 stays scaled down to the group of order GroupOrder.  A point  *)
(* is a non-zero residue, the base point is Generator, the point of a      *)
(* secret key sk is Generator * sk, and 0 is the point at infinity.  The   *)
(* compressed form of a point is a parity byte and its x coordinate XOf.   *)
(* The hashes are digests of the bytes they are given.  HMAC-SHA512 gives  *)
(* a left half that is a valid secret key and does not send the parent     *)
(* key to infinity: the outputs that do, about one in 2^127, are left out  *)
(* of its range.                                                           *)

Generator == 2

\* The 58 characters of the Base58 alphabet, by digit value.
ALPHABET ==
    <<"1", "2", "3", "4", "5", "6", "7", "8", "9",
      "A", "B", "C", "D", "E", "F", "G", "H", "J", "K", "L", "M", "N", "P",
      "Q", "R", "S", "T", "U", "V", "W", "X", "Y", "Z",
      "a", "b", "c", "d", "e", "f", "g", "h", "i", "j", "k", "m", "n", "o",
      "p", "q", "r", "s", "t", "u", "v", "w", "x", "y", "z">>

\* B58_DIGITS_MAP: the digit value of a character, -1 when it has none.
B58_DIGITS_MAP(c) ==
    IF \E i \in 1..58 : ALPHABET[i] = c
    THEN (CHOOSE i \in 1..58 : ALPHABET[i] = c) - 1
    ELSE -1

\* How many leading elements of s equal x (take_while(..).count()).
RECURSIVE LeadingCount(_, _)
LeadingCount(s, x) ==
    IF s = <<>> \/ Head(s) # x THEN 0 ELSE 1 + LeadingCount(Tail(s), x)

\* The base-58 digits of a big-endian number, most significant first, in
\* front of the digits acc already found; two digits are taken per step.
RECURSIVE Base58Digits(_, _)
Base58Digits(b, acc) ==
    IF IsZero(b) \/ Len(acc) < 0 THEN acc
    ELSE LET d    == DivBE(b, 58 * 58, 0)
             q    == SubSeq(d.q, LeadingCount(d.q, 0) + 1, Len(d.q))
             low  == <<ALPHABET[(d.r % 58) + 1]>>
             high == IF q = <<>> /\ d.r < 58 THEN <<>> ELSE <<ALPHABET[(d.r \div 58) + 1]>>
         IN  Base58Digits(q, high \o low \o acc)

\* ToBase58::to_base58: a 1 for each leading zero byte, then the digits of
\* the rest read as a big-endian number.
to_base58(bytes) ==
    LET zcount == LeadingCount(bytes, 0)
    IN  Rep(zcount, "1") \o Base58Digits(SubSeq(bytes, zcount + 1, Len(bytes)), <<>>)

\* The number a run of base-58 characters denotes, after the number acc of
\* the characters before them: little-endian bytes; two characters are taken
\* per step.
RECURSIVE Base58Number(_, _)
Base58Number(chars, acc) ==
    IF chars = <<>> \/ Len(acc) < 0 THEN acc
    ELSE IF Len(chars) = 1
         THEN NatLE(MulLE(acc, 58, B58_DIGITS_MAP(chars[1])))
         ELSE Base58Number(SubSeq(chars, 3, Len(chars)),
                  NatLE(MulLE(acc \o <<0>>, 58 * 58,
                              B58_DIGITS_MAP(chars[1]) * 58 + B58_DIGITS_MAP(chars[2]))))

\* The size of the buffer from_base58 decodes into.
Base58BufferLen == 132

\* FromBase58::from_base58: a zero byte for each leading 1, then the bytes of
\* the number the characters denote.  A character outside the alphabet and
\* a number that overflows the buffer are errors; more leading 1s than the
\* buffer has zero bytes left puts the slice start out of range.
from_base58(s) ==
    LET zcount == LeadingCount(s, "1")
        rest   == SubSeq(s, zcount + 1, Len(s))
    IN  IF \E i \in 1..Len(rest) : B58_DIGITS_MAP(rest[i]) = -1
        THEN Err("InvalidBase58Character", 0)
        ELSE LET number == Base58Number(rest, <<>>)
             IN  IF Len(number) > Base58BufferLen THEN Err("InvalidBase58Length", 0)
                 ELSE IF zcount > Base58BufferLen - Len(number) THEN Abort("slice index")
                 ELSE Ok(Rep(zcount, 0) \o Reverse(number))

\* wagu_model::crypto::checksum (double SHA-256): a 32-byte digest.
checksum(data) ==
    LET h == WeightedSum(data, 1) + Len(data) IN [i \in 1..32 |-> (h \div i) % 256]

\* wagu_model::crypto::hash160 (RIPEMD-160 of SHA-256): a 20-byte digest.
hash160(data) ==
    LET h == 3 * WeightedSum(data, 1) + 7 IN [i \in 1..20 |-> (h \div i) % 256]

\* The point named by 33 bytes of compressed form, or 0 when they name none.
PointOf(data) ==
    IF /\ Len(data) = 33
       /\ data[1] \in {2, 3}
       /\ \A i \in 2..32 : data[i] = 0
       /\ data[33] \in 1..Half
    THEN IF data[1] = 2 THEN data[33] ELSE GroupOrder - data[33]
    ELSE 0

\* secp256k1::PublicKey::serialize: the compressed form, 33 bytes.
serialize(point) ==
    <<IF point <= Half THEN 2 ELSE 3>> \o Scalar32(XOf(point))

\* secp256k1::PublicKey::from_slice of 33 bytes.
Secp256k1_PublicKey_from_slice(data) ==
    IF PointOf(data) = 0 THEN Err("InvalidPublicKey", 0) ELSE Ok(PointOf(data))

\* EthereumPublicKey::from_str of the hex of the uncompressed form: the
\* same point in its wrapper.
EthereumPublicKey_from_str(point) == Ok(point)

\* EthereumPublicKey::from_private_key: the point of a secret key.
from_private_key(sk) == (Generator * sk) % GroupOrder

\* secp256k1::SecretKey::from_slice of 32 bytes: a scalar from 1 to n - 1.
SecretKey_from_slice(data) ==
    IF /\ Len(data) = 32
       /\ \A i \in 1..31 : data[i] = 0
       /\ data[32] \in 1..(GroupOrder - 1)
    THEN Ok(data[32]) ELSE Err("InvalidSecretKey", 0)

\* secp256k1::PublicKey::add_exp_assign: the point plus secret * G; the
\* point at infinity is an error.
add_exp_assign(point, secret) ==
    LET sum == (point + Generator * secret) % GroupOrder
    IN  IF sum = 0 THEN Err("InvalidSecretKey", 0) ELSE Ok(sum)

\* The secret key of the parent named in the data given to the HMAC: the
\* data starts with the compressed parent point, or with a zero byte and
\* the parent secret.
ParentSecret(data) ==
    IF data[1] = 0 THEN data[33]
    ELSE (Inv(Generator) * PointOf(SubSeq(data, 1, 33))) % GroupOrder

\* Hmac<Sha512> keyed with key over data: 64 bytes, the left 32 a secret
\* key, the right 32 a chain code.
HmacSha512(key, data) ==
    LET h     == WeightedSum(key \o data, 1)
        avoid == GroupOrder - ParentSecret(data)
        k     == 1 + (h % (GroupOrder - 2))
        il    == IF k >= avoid THEN k + 1 ELSE k
    IN  Scalar32(il) \o Rep(32, (h \div 5) % 256)

----------------------------------------------------------------------------
(* EthereumExtendedPublicKey                                               *)
(*                                                                         *)
(* A key is a record of its five fields: public_key a point, chain_code 32 *)
(* bytes, depth a u8, parent_fingerprint 4 bytes and child_number a u32.   *)

\* [0x04, 0x88, 0xB2, 0x1E]
VersionBytes == <<4, 136, 178, 30>>

\* 2_u32.pow(31)
TwoPow31 == <<0, 0, 0, 128>>

\* EthereumExtendedPrivateKey: the same shape with the secret key private_key.
from_extended_private_key(private_key) ==
    [public_key         |-> from_private_key(private_key.private_key),
     chain_code         |-> private_key.chain_code,
     depth              |-> private_key.depth,
     parent_fingerprint |-> private_key.parent_fingerprint,
     child_number       |-> private_key.child_number]

\* Mutant of max_depth_reached: a parent at depth 255 is not refused.
max_depth_reached_above(self) == self.depth > 255

\* Mutant of max_depth_reached: the last level is refused too.
max_depth_reached_early(self) == self.depth >= 254

max_depth_reached(self) == self.depth >= 255

\* Mutant of is_hardened: 2^31 itself passes for a normal child.
is_hardened_above(child_number) ==
    child_number[4] >= 128 /\ child_number # TwoPow31

\* child_number >= 2_u32.pow(31)
is_hardened(child_number) == child_number[4] >= 128

\* Mutant of ckd_pub_child: the parent fingerprint is taken from the child key.
ckd_pub_child_own_fingerprint(self, child_number) ==
    LET public_key_serialized == serialize(self.public_key)
        result     == HmacSha512(self.chain_code,
                                 public_key_serialized \o Reverse(child_number))
        secret_key == SecretKey_from_slice(SubSeq(result, 1, 32))
    IN  IF Failed(secret_key) THEN secret_key
        ELSE LET public_key == add_exp_assign(self.public_key, secret_key.val[1])
             IN  IF Failed(public_key) THEN public_key
                 ELSE Ok([public_key         |-> public_key.val[1],
                          chain_code         |-> SubSeq(result, 33, 64),
                          depth              |-> self.depth + 1,
                          parent_fingerprint |->
                              SubSeq(hash160(serialize(public_key.val[1])), 1, 4),
                          child_number       |-> child_number])

\* ckd_pub past its two checks: the HMAC over serP(Kpar) || ser32(i), the
\* child point, chain code and parent fingerprint.
ckd_pub_child(self, child_number) ==
    LET public_key_serialized == serialize(self.public_key)
        result     == HmacSha512(self.chain_code,
                                 public_key_serialized \o Reverse(child_number))
        secret_key == SecretKey_from_slice(SubSeq(result, 1, 32))
    IN  IF Failed(secret_key) THEN secret_key
        ELSE LET public_key == add_exp_assign(self.public_key, secret_key.val[1])
             IN  IF Failed(public_key) THEN public_key
                 ELSE Ok([public_key         |-> public_key.val[1],
                          chain_code         |-> SubSeq(result, 33, 64),
                          depth              |-> self.depth + 1,
                          parent_fingerprint |->
                              SubSeq(hash160(public_key_serialized), 1, 4),
                          child_number       |-> child_number])

ckd_pub(self, child_number) ==
    IF max_depth_reached(self) THEN Err("MaximumChildDepthReached", self.depth)
    ELSE IF is_hardened(child_number)
         THEN Err("InvalidChildNumber", <<TwoPow31, child_number>>)
         ELSE ckd_pub_child(self, child_number)

\* Mutant of derive_child: a component with an apostrophe is passed over.
derive_child_skip_hardened(key, child_str) ==
    IF contains(child_str, "'") THEN Ok(key)
    ELSE LET child_num_u32 == parse_u32(child_str)
         IN  IF Failed(child_num_u32)
             THEN Err("InvalidDerivationPath", <<"number", child_str>>)
             ELSE ckd_pub(key, child_num_u32.val[1])

\* The body of the loop of derivation_path: one component.
derive_child(key, child_str) ==
    IF contains(child_str, "'") THEN Err("InvalidDerivationPath", <<"", "'">>)
    ELSE LET child_num_u32 == parse_u32(child_str)
         IN  IF Failed(child_num_u32)
             THEN Err("InvalidDerivationPath", <<"number", child_str>>)
             ELSE ckd_pub(key, child_num_u32.val[1])

\* Mutant of derive_children: every child is derived from the starting key.
RECURSIVE derive_children_unchained(_, _)
derive_children_unchained(key, children) ==
    IF children = <<>> THEN Ok(key)
    ELSE LET child == derive_child(key, Head(children))
             rest  == derive_children_unchained(key, Tail(children))
         IN  IF Failed(child) THEN child
             ELSE IF Tail(children) = <<>> THEN child ELSE rest

\* The loop of derivation_path over path_vec[1..].
RECURSIVE derive_children(_, _)
derive_children(key, children) ==
    IF children = <<>> THEN Ok(key)
    ELSE LET child == derive_child(key, Head(children))
         IN  IF Failed(child) THEN child
             ELSE derive_children(child.val[1], Tail(children))

derivation_path(self, path) ==
    LET path_vec == split(path)
    IN  IF path_vec[1] # <<"m">>
        THEN Err("InvalidDerivationPath", <<"m", path_vec[1]>>)
        ELSE IF Len(path_vec) = 1 THEN Ok(self)
        ELSE derive_children(self, Tail(path_vec))

\* The 78 bytes a key serializes to, before the checksum.
key_bytes(self) ==
    VersionBytes \o <<self.depth>> \o self.parent_fingerprint
    \o Reverse(self.child_number) \o self.chain_code \o serialize(self.public_key)

\* Mutant of EthereumExtendedPublicKey_fmt: the child number is written in
\* little-endian order.
EthereumExtendedPublicKey_fmt_little_endian(self) ==
    LET result == VersionBytes \o <<self.depth>> \o self.parent_fingerprint
                  \o self.child_number \o self.chain_code \o serialize(self.public_key)
    IN  to_base58(result \o SubSeq(checksum(result), 1, 4))

\* Display for EthereumExtendedPublicKey.
EthereumExtendedPublicKey_fmt(self) ==
    LET result == key_bytes(self)
    IN  to_base58(result \o SubSeq(checksum(result), 1, 4))

\* Mutant of from_data: the checksum is compared before the public key is read.
from_data_checksum_first(data) ==
    LET secp     == Secp256k1_PublicKey_from_slice(SubSeq(data, 46, 78))
        expected == SubSeq(data, 79, 82)
        sum      == SubSeq(checksum(SubSeq(data, 1, 78)), 1, 4)
    IN  IF Len(data) # 82 THEN Err("InvalidByteLength", Len(data))
        ELSE IF SubSeq(data, 1, 4) # VersionBytes
             THEN Err("InvalidNetworkBytes", SubSeq(data, 1, 4))
        ELSE IF expected # sum
             THEN Err("InvalidChecksum", <<to_base58(expected), to_base58(sum)>>)
        ELSE IF Failed(secp) THEN secp
        ELSE Ok([public_key         |-> secp.val[1],
                 chain_code         |-> SubSeq(data, 14, 45),
                 depth              |-> data[5],
                 parent_fingerprint |-> SubSeq(data, 6, 9),
                 child_number       |-> Reverse(SubSeq(data, 10, 13))])

\* from_str past the Base58 decoding: the checks and the fields.
from_data(data) ==
    LET secp       == Secp256k1_PublicKey_from_slice(SubSeq(data, 46, 78))
        public_key == EthereumPublicKey_from_str(secp.val[1])
        expected   == SubSeq(data, 79, 82)
        sum        == SubSeq(checksum(SubSeq(data, 1, 78)), 1, 4)
    IN  IF Len(data) # 82 THEN Err("InvalidByteLength", Len(data))
        ELSE IF SubSeq(data, 1, 4) # VersionBytes
             THEN Err("InvalidNetworkBytes", SubSeq(data, 1, 4))
        ELSE IF Failed(secp) THEN secp
        ELSE IF Failed(public_key) THEN public_key
        ELSE IF expected # sum
             THEN Err("InvalidChecksum", <<to_base58(expected), to_base58(sum)>>)
        ELSE Ok([public_key         |-> public_key.val[1],
                 chain_code         |-> SubSeq(data, 14, 45),
                 depth              |-> data[5],
                 parent_fingerprint |-> SubSeq(data, 6, 9),
                 child_number       |-> Reverse(SubSeq(data, 10, 13))])

\* EthereumExtendedPublicKey::from_str.
EthereumExtendedPublicKey_from_str(s) ==
    LET data == from_base58(s)
    IN  IF Failed(data) THEN data ELSE from_data(data.val[1])

\* CKD-priv of the spec: the child of an extended private key.  The retry
\* with the next index is for a left half that is no valid secret key or
\* gives the zero secret.
RECURSIVE ckd_priv(_, _)
ckd_priv(parent, i) ==
    IF parent.depth = 255 THEN Err("MaximumChildDepthReached", parent.depth)
    ELSE LET parent_pub == serialize(from_private_key(parent.private_key))
             data   == IF is_hardened(i)
                       THEN <<0>> \o Scalar32(parent.private_key) \o Reverse(i)
                       ELSE parent_pub \o Reverse(i)
             I      == HmacSha512(parent.chain_code, data)
             IL     == SecretKey_from_slice(SubSeq(I, 1, 32))
             secret == (IL.val[1] + parent.private_key) % GroupOrder
         IN  IF Failed(IL) \/ secret = 0
             THEN ckd_priv(parent, U32Add(i, U32(1)).val)
             ELSE Ok([private_key        |-> secret,
                      chain_code         |-> SubSeq(I, 33, 64),
                      depth              |-> parent.depth + 1,
                      parent_fingerprint |-> SubSeq(hash160(parent_pub), 1, 4),
                      child_number       |-> i])

----------------------------------------------------------------------------
(* Extended public keys and their text as a state machine                  *)

SecretKeys == {1, 5}

ChainCodes == { Rep(32, 7), Rep(32, 200) }

ExtendedPublicKeys ==
    [public_key         : { from_private_key(sk) : sk \in SecretKeys },
     chain_code         : { Rep(32, 7) },
     depth              : {0, 3, 255},
     parent_fingerprint : { Rep(4, 0), <<1, 2, 3, 4>> },
     child_number       : { U32(0), U32(5), <<1, 0, 0, 128>> }]

\* What may be wrong with the data of a key text: the version bytes, the
\* public key (a parity byte that is none, an x coordinate of no point), the
\* checksum, a byte missing at the end, a byte too many.
Edits == {"version", "parity", "x", "checksum", "short", "long"}

\* The most edits made to the data of one text.
MaxEdits == 2

EditedData(key, edits) ==
    LET plain == key_bytes(key)
        body  == [i \in 1..78 |->
                     IF i = 4 /\ "version" \in edits THEN 29
                     ELSE IF i = 46 /\ "parity" \in edits THEN 4
                     ELSE IF i = 78 /\ "x" \in edits THEN Half + 1
                     ELSE plain[i]]
        sum   == SubSeq(checksum(body), 1, 4)
        tail  == IF "checksum" \in edits
                 THEN [sum EXCEPT ![4] = (sum[4] + 1) % 256] ELSE sum
        data  == body \o tail
        cut   == IF "short" \in edits THEN SubSeq(data, 1, 81) ELSE data
    IN  IF "long" \in edits THEN cut \o <<97>> ELSE cut

\* The keys whose texts are edited.
EditedKeys == { k \in ExtendedPublicKeys : k.parent_fingerprint = Rep(4, 0) /\ k.depth = 0 }

\* The texts a caller may hand to from_str: data with up to MaxEdits things
\* wrong, a text cut by its first character, a text with a character added,
\* and a text with a character outside the alphabet.
ExtendedPublicKeyTexts(keys) ==
    { to_base58(EditedData(k, e)) :
        k \in keys, e \in { x \in SUBSET Edits : Cardinality(x) <= MaxEdits } }
    \cup { Tail(EthereumExtendedPublicKey_fmt(k)) : k \in keys }
    \cup { EthereumExtendedPublicKey_fmt(k) \o <<"a">> : k \in keys }
    \cup { <<"0">> \o EthereumExtendedPublicKey_fmt(k) : k \in keys }

\* The most successive ckd_pub calls made on a key.
MaxCalls == 256

InitKey ==
    /\ chain = U32(0)
    /\ cur = None
    /\ wire = <<>>
    /\ out = [op |-> "init", self |-> None, arg |-> <<>>, res |-> Ok(0)]
    /\ tampers = 0
    /\ calls = 0

\* A key made from its fields: all five are public.
KeyFrom(key) ==
    /\ out.op = "init"
    /\ cur' = Some(key)
    /\ out' = [op |-> "from", self |-> None, arg |-> <<key>>, res |-> Ok(key)]
    /\ UNCHANGED <<chain, wire, tampers, calls>>

\* key.to_string().
KeyFmt ==
    /\ cur # None
    /\ out.op \in {"from", "from_str"}
    /\ out.res.tag = "Ok"
    /\ wire' = EthereumExtendedPublicKey_fmt(cur[1])
    /\ out' = [op |-> "fmt", self |-> cur, arg |-> <<wire>>, res |-> Ok(wire')]
    /\ UNCHANGED <<chain, cur, tampers, calls>>

\* The caller is handed a text from outside.
KeyInput ==
    /\ out.op = "init"
    /\ \E text \in ExtendedPublicKeyTexts(EditedKeys) :
          /\ wire' = text
          /\ out' = [op |-> "input", self |-> None, arg |-> <<>>, res |-> Ok(text)]
    /\ UNCHANGED <<chain, cur, tampers, calls>>

\* EthereumExtendedPublicKey::from_str of the text the caller holds.
KeyFromStr ==
    /\ out.op \in {"fmt", "input"}
    /\ LET res == EthereumExtendedPublicKey_from_str(wire)
       IN  /\ cur' = IF res.tag = "Ok" THEN Some(res.val[1]) ELSE cur
           /\ out' = [op |-> "from_str", self |-> cur, arg |-> <<wire>>, res |-> res]
    /\ UNCHANGED <<chain, wire, tampers, calls>>

\* ckd_pub(0) on the key the text gave, and again on each child.
KeyCkdPub ==
    /\ cur # None
    /\ out.op \in {"from_str", "ckd_pub"}
    /\ out.res.tag = "Ok"
    /\ calls < MaxCalls
    /\ LET res == ckd_pub(cur[1], U32(0))
       IN  /\ cur' = IF res.tag = "Ok" THEN Some(res.val[1]) ELSE cur
           /\ out' = [op |-> "ckd_pub", self |-> cur, arg |-> <<U32(0)>>, res |-> res]
    /\ calls' = calls + 1
    /\ UNCHANGED <<chain, wire, tampers>>

NextKey ==
    \/ \E key \in ExtendedPublicKeys : KeyFrom(key)
    \/ KeyFmt
    \/ KeyInput
    \/ KeyFromStr
    \/ KeyCkdPub

SpecKey == InitKey /\ [][NextKey]_vars

----------------------------------------------------------------------------
(* Child derivation on both sides as a state machine                       *)
(*                                                                         *)
(* The caller holds an extended private key and derives on its extended    *)
(* public key; a child number asked of ckd_pub is also asked of CKD-priv,  *)
(* whose child the caller holds next.  derivation_path is asked of the     *)
(* key the caller starts with.                                             *)

ExtendedPrivateKeys ==
    [private_key        : {1, 5, 12},
     chain_code         : ChainCodes,
     depth              : {0, 254, 255},
     parent_fingerprint : { Rep(4, 0) },
     child_number       : { U32(0) }]

ChildNumbers == { U32(0), U32(1), TwoPow31, <<255, 255, 255, 255>> }

DerivationTokens ==
    { <<"0">>, <<"1">>, <<"0", "'">>, <<"5", "h">>, <<"a">>, <<>>,
      <<"2", "1", "4", "7", "4", "8", "3", "6", "4", "8">>,
      <<"4", "2", "9", "4", "9", "6", "7", "2", "9", "5">>,
      <<"4", "2", "9", "4", "9", "6", "7", "2", "9", "6">> }

\* The most components of a path text given to derivation_path.
MaxDerivationComponents == 2

DerivationTexts ==
    { <<"m">> \o Slashed(tokens) :
        tokens \in UpTo(DerivationTokens, MaxDerivationComponents) }
    \cup { <<"/", "0">>, <<"n", "/", "0", "'">> }

\* The most child derivations made from a starting key.
MaxDerive == 2

InitDerive ==
    /\ chain = U32(0)
    /\ cur \in { Some(k) : k \in ExtendedPrivateKeys }
    /\ wire = <<>>
    /\ out = [op |-> "init", self |-> None, arg |-> <<>>, res |-> Ok(0)]
    /\ tampers = 0
    /\ calls = 0

CkdPub(child_number) ==
    /\ calls < MaxDerive
    /\ LET res  == ckd_pub(from_extended_private_key(cur[1]), child_number)
           priv == ckd_priv(cur[1], child_number)
       IN  /\ cur' = IF priv.tag = "Ok" THEN Some(priv.val[1]) ELSE cur
           /\ out' = [op |-> "ckd_pub", self |-> cur, arg |-> <<child_number>>,
                      res |-> res]
    /\ calls' = calls + 1
    /\ UNCHANGED <<chain, wire, tampers>>

DerivationPath ==
    /\ out.op = "init"
    /\ \E path \in DerivationTexts :
          out' = [op |-> "derivation_path", self |-> cur, arg |-> <<path>>,
                  res |-> derivation_path(from_extended_private_key(cur[1]), path)]
    /\ UNCHANGED <<chain, cur, wire, tampers, calls>>

NextDerive ==
    \/ \E child_number \in ChildNumbers : CkdPub(child_number)
    \/ DerivationPath

SpecDerive == InitDerive /\ [][NextDerive]_vars

----------------------------------------------------------------------------
(* Properties of the extended public key                                   *)

\* C14 as stated: for every extended public key and every child number
\* i >= 2^31, ckd_pub returns InvalidChildNumber(2^31, i) and no child key.
C14_HardenedRejected ==
    (out.op = "ckd_pub" /\ out.arg[1][4] >= 128) =>
        /\ out.res.tag = "Err"
        /\ out.res.val = <<>>
        /\ out.res.err.kind = "InvalidChildNumber"
        /\ out.res.err.n = << <<0, 0, 0, 128>>, out.arg[1] >>

\* C14: for every extended public key of depth below 255 and every child
\* number i >= 2^31, ckd_pub returns InvalidChildNumber(2^31, i) and no
\* child key.
C14_HardenedRejectedBelowMaxDepth ==
    (out.op = "ckd_pub" /\ out.arg[1][4] >= 128 /\ out.self[1].depth < 255) =>
        /\ out.res.tag = "Err"
        /\ out.res.val = <<>>
        /\ out.res.err.kind = "InvalidChildNumber"
        /\ out.res.err.n = << <<0, 0, 0, 128>>, out.arg[1] >>

\* The largest child number has been asked of a key one level above the last.
C14_Witness ==
    /\ out.op = "ckd_pub"
    /\ out.arg[1] = <<255, 255, 255, 255>>
    /\ out.self[1].depth = 254
    /\ out.res.err.kind = "InvalidChildNumber"

\* The depth byte of the text the caller's first key was parsed from.
StartDepth == from_base58(wire).val[1][5]

\* The outcome of the calls-th successive ckd_pub(0): the first 255 succeed
\* and the 256th fails with MaximumChildDepthReached.
DepthLimitOutcome ==
    /\ calls <= 255 => out.res.tag = "Ok"
    /\ calls = 256 =>
          out.res.tag = "Err" /\ out.res.err.kind = "MaximumChildDepthReached"

C17_KeyTextRoundTrip ==
    /\ (out.op = "from_str" /\ out.self # None) =>
          out.res.tag = "Ok" /\ out.res.val[1] = out.self[1]
    /\ (out.op = "fmt" /\ out.arg[1] # <<>>) => out.res.val[1] = out.arg[1]
    /\ out.op = "fmt" =>
          LET d == from_base58(out.res.val[1]).val[1]
              k == out.self[1]
          IN  /\ Len(d) = 82
              /\ SubSeq(d, 1, 4) = <<4, 136, 178, 30>>
              /\ d[5] = k.depth
              /\ SubSeq(d, 6, 9) = k.parent_fingerprint
              /\ \A i \in 1..4 : d[9 + i] = k.child_number[5 - i]
              /\ SubSeq(d, 14, 45) = k.chain_code
              /\ SubSeq(d, 46, 78) = serialize(k.public_key)
              /\ SubSeq(d, 79, 82) = SubSeq(checksum(SubSeq(d, 1, 78)), 1, 4)

\* The text of a hardened child key at depth 255 has been parsed back.
C17_Witness ==
    /\ out.op = "from_str"
    /\ out.self # None
    /\ out.self[1].depth = 255
    /\ out.self[1].child_number = <<1, 0, 0, 128>>
    /\ out.arg[1] = EthereumExtendedPublicKey_fmt(out.self[1])
    /\ out.res.tag = "Ok"

\* C18: from_str accepts a text only if its decoded data is 82 bytes long,
\* starts with the version bytes 0x0488B21E, holds a valid public key and
\* ends with the checksum of its first 78 bytes; otherwise it returns the
\* error of the first failing check in the order InvalidByteLength(len),
\* InvalidNetworkBytes(bytes), invalid public key, InvalidChecksum.
C18_ParseChecksInOrder ==
    (out.op = "from_str" /\ from_base58(out.arg[1]).tag = "Ok") =>
        LET d == from_base58(out.arg[1]).val[1]
        IN  IF Len(d) # 82
            THEN out.res.err.kind = "InvalidByteLength" /\ out.res.err.n = Len(d)
            ELSE IF SubSeq(d, 1, 4) # <<4, 136, 178, 30>>
            THEN /\ out.res.err.kind = "InvalidNetworkBytes"
                 /\ out.res.err.n = SubSeq(d, 1, 4)
            ELSE IF PointOf(SubSeq(d, 46, 78)) = 0
            THEN out.res.err.kind = "InvalidPublicKey"
            ELSE IF SubSeq(d, 79, 82) # SubSeq(checksum(SubSeq(d, 1, 78)), 1, 4)
            THEN out.res.err.kind = "InvalidChecksum"
            ELSE out.res.tag = "Ok"

\* A text whose public key and checksum are both wrong has been refused for
\* its public key.
C18_Witness ==
    /\ out.op = "from_str"
    /\ out.res.err.kind = "InvalidPublicKey"
    /\ LET d == from_base58(out.arg[1]).val[1]
       IN  SubSeq(d, 79, 82) # SubSeq(checksum(SubSeq(d, 1, 78)), 1, 4)

\* A component that asks for a hardened child: a trailing ' or h, or a plain
\* number of 2^31 or more.
IsHardenedComponent(token) ==
    \/ IsSuffixed(token)
    \/ IsDecimal(token) /\ AtLeast2Pow31(DecNat(token))

\* C19: derivation_path on an extended public key returns an error and no
\* derived key whenever a component of the path is hardened, however it is
\* written and wherever it stands.
C19_HardenedPathRejected ==
    LET tokens == Tail(split(out.arg[1]))
    IN  (/\ out.op = "derivation_path"
         /\ \E i \in 1..Len(tokens) : IsHardenedComponent(tokens[i])) =>
            out.res.tag = "Err" /\ out.res.val = <<>>

\* A path whose second component is written with h has been refused.
C19_Witness ==
    /\ out.op = "derivation_path"
    /\ out.arg[1] = <<"m", "/", "0", "/", "5", "h">>
    /\ out.self[1].depth = 0
    /\ out.res.tag = "Err"

----------------------------------------------------------------------------
(* Part 4.  The derivation presets of the Ethereum command line            *)

\* The preset names, as text.
Ethereum     == <<"e", "t", "h", "e", "r", "e", "u", "m">>
Keepkey      == <<"k", "e", "e", "p", "k", "e", "y">>
LedgerLegacy == <<"l", "e", "d", "g", "e", "r", "-", "l", "e", "g", "a", "c", "y">>
LedgerLive   == <<"l", "e", "d", "g", "e", "r", "-", "l", "i", "v", "e">>
Trezor       == <<"t", "r", "e", "z", "o", "r">>
Custom       == <<"c", "u", "s", "t", "o", "m">>

\* "m/44'/60'/"
Bip44Prefix == <<"m", "/", "4", "4", "'", "/", "6", "0", "'", "/">>

\* format!("m/44'/60'/0'/{}", index)
format_account_zero(index) == Bip44Prefix \o <<"0", "'", "/">> \o u32_to_string(index)

\* format!("m/44'/60'/{}'/0", index)
format_keepkey(index) == Bip44Prefix \o u32_to_string(index) \o <<"'", "/", "0">>

\* format!("m/44'/60'/{}'/0/0", index)
format_ledger_live(index) ==
    Bip44Prefix \o u32_to_string(index) \o <<"'", "/", "0", "/", "0">>

\* EthereumOptions::default(), of which the fields count, derivation, index,
\* path and word_count are kept.
EthereumOptions_default ==
    [count |-> 1, derivation |-> Ethereum, index |-> U32(0), path |-> None,
     word_count |-> 12]

\* What the field derivation stores for a preset name given on the command
\* line: ledger-live is stored as ledger-legacy.
stored_preset(name) ==
    IF name = LedgerLive THEN LedgerLegacy ELSE name

\* EthereumOptions::derivation(&mut self, argument).
derivation(self, argument) ==
    IF argument = None THEN self
    ELSE IF argument[1] \in {Ethereum, Keepkey, LedgerLegacy, LedgerLive, Trezor}
    THEN [self EXCEPT !.derivation = stored_preset(argument[1])]
    ELSE [self EXCEPT !.derivation = Custom, !.path = Some(argument[1])]

\* EthereumOptions::index(&mut self, argument).
index(self, argument) ==
    IF argument = None THEN self ELSE [self EXCEPT !.index = argument[1]]

\* EthereumOptions::to_derivation_path(&self, default).
to_derivation_path(self, default) ==
    CASE self.derivation = Ethereum     -> Some(format_account_zero(self.index))
      [] self.derivation = Keepkey      -> Some(format_keepkey(self.index))
      [] self.derivation = LedgerLegacy -> Some(format_account_zero(self.index))
      [] self.derivation = LedgerLive   -> Some(format_ledger_live(self.index))
      [] self.derivation = Trezor       -> Some(format_account_zero(self.index))
      [] self.derivation = Custom       -> self.path
      [] OTHER -> IF default THEN Some(format_account_zero(self.index)) ELSE None

----------------------------------------------------------------------------
(* The command line as a state machine: the arguments given are in wire,   *)
(* the options being filled in cur.  parse reads "derivation" before       *)
(* "index" (the hd subcommand reads no index), then print asks for the     *)
(* path.                                                                   *)

\* Values of --derivation: the preset names, the word custom, and paths.
DerivationArguments ==
    { Ethereum, Keepkey, LedgerLegacy, LedgerLive, Trezor, Custom,
      <<"m", "/", "0">>, <<"m", "/", "4", "4", "'", "/", "6", "0", "'">> }

\* Values of --index.
IndexArguments == { U32(0), U32(1), U32(7), U32(1000000), TwoPow31, <<255, 255, 255, 255>> }

InitCli ==
    /\ chain = U32(0)
    /\ cur = Some(EthereumOptions_default)
    /\ wire \in [ derivation : {None} \cup { Some(d) : d \in DerivationArguments },
                  index      : {None} \cup { Some(i) : i \in IndexArguments } ]
    /\ out = [op |-> "init", self |-> None, arg |-> <<>>, res |-> Ok(0)]
    /\ tampers = 0
    /\ calls = 0

ParseDerivation ==
    /\ out.op = "init"
    /\ cur' = Some(derivation(cur[1], wire.derivation))
    /\ out' = [op |-> "derivation", self |-> cur, arg |-> <<wire.derivation>>,
               res |-> Ok(0)]
    /\ UNCHANGED <<chain, wire, tampers, calls>>

ParseIndex ==
    /\ out.op = "derivation"
    /\ cur' = Some(index(cur[1], wire.index))
    /\ out' = [op |-> "index", self |-> cur, arg |-> <<wire.index>>, res |-> Ok(0)]
    /\ UNCHANGED <<chain, wire, tampers, calls>>

ToDerivationPath(default) ==
    /\ out.op \in {"derivation", "index"}
    /\ out' = [op |-> "to_derivation_path", self |-> cur, arg |-> <<default>>,
               res |-> Ok(to_derivation_path(cur[1], default))]
    /\ UNCHANGED <<chain, cur, wire, tampers, calls>>

NextCli ==
    \/ ParseDerivation
    \/ ParseIndex
    \/ \E default \in BOOLEAN : ToDerivationPath(default)

SpecCli == InitCli /\ [][NextCli]_vars

----------------------------------------------------------------------------
(* Properties of the derivation presets                                    *)

\* The path the presets table gives for a preset name and an index.
PresetPath(name, i) ==
    CASE name \in {Ethereum, LedgerLegacy, Trezor} ->
            <<"m", "/", "4", "4", "'", "/", "6", "0", "'", "/", "0", "'", "/">>
                \o u32_to_string(i)
      [] name = Keepkey ->
            <<"m", "/", "4", "4", "'", "/", "6", "0", "'", "/">>
                \o u32_to_string(i) \o <<"'", "/", "0">>
      [] name = LedgerLive ->
            <<"m", "/", "4", "4", "'", "/", "6", "0", "'", "/">>
                \o u32_to_string(i) \o <<"'", "/", "0", "/", "0">>

\* C20: after the derivation option is set to a preset name, to_derivation_path
\* returns that preset's path for every index: m/44'/60'/0'/<index> for
\* ethereum, ledger-legacy and trezor, m/44'/60'/<index>'/0 for keepkey and
\* m/44'/60'/<index>'/0/0 for ledger-live.
C20_PresetPaths ==
    (/\ out.op = "to_derivation_path"
     /\ wire.derivation # None
     /\ wire.derivation[1] \in {Ethereum, Keepkey, LedgerLegacy, LedgerLive, Trezor}) =>
        out.res.val[1] = Some(PresetPath(wire.derivation[1], cur[1].index))

\* The same for the presets other than ledger-live.
C20_PresetPathsButLedgerLive ==
    (/\ out.op = "to_derivation_path"
     /\ wire.derivation # None
     /\ wire.derivation[1] \in {Ethereum, Keepkey, LedgerLegacy, Trezor}) =>
        out.res.val[1] = Some(PresetPath(wire.derivation[1], cur[1].index))

\* The path has been asked for after --derivation ledger-live --index 7.
C20_Witness ==
    /\ out.op = "to_derivation_path"
    /\ wire.derivation = Some(LedgerLive)
    /\ wire.index = Some(U32(7))
    /\ cur[1].index = U32(7)

----------------------------------------------------------------------------
(* Part 5.  Importing a mnemonic whose language is not declared            *)
(* (wagyu/cli/ethereum.rs, print, subcommand import-hd)                    *)

\* The wordlists in the order in which print names them.
Wordlists ==
    << "ChineseSimplified", "ChineseTraditional", "English", "French",
       "Italian", "Japanese", "Korean", "Spanish" >>

\* EthereumMnemonic::<W>::from_phrase: a phrase is kept as the set of
\* wordlists that parse it (words and checksum); the error names the wordlist.
from_phrase(W, mnemonic) ==
    IF W \in mnemonic.parses THEN Ok([wordlist |-> W, phrase |-> mnemonic.phrase])
    ELSE Err("MnemonicError", W)

\* EthereumWallet::from_mnemonic::<W>(mnemonic, password, path).
from_mnemonic(W, mnemonic, path) ==
    LET parsed == from_phrase(W, mnemonic)
    IN  IF Failed(parsed) THEN parsed
        ELSE Ok([path |-> Some(path), mnemonic |-> Some(parsed.val[1])])

\* process_mnemonic::<EW>(&mnemonic, &options).
process_mnemonic(EW, mnemonic, options) ==
    from_mnemonic(EW, mnemonic, to_derivation_path(options, TRUE)[1])

\* Mutant of Result::or: the later result always wins.
Result_or_later(a, b) == b

\* Result::or(self, res): self when it is Ok, otherwise res.
Result_or(a, b) == IF a.tag = "Ok" THEN a ELSE b

----------------------------------------------------------------------------
(* The import as a state machine: wire holds the mnemonic and the options, *)
(* calls counts the process_mnemonic calls made, out.res is the result of  *)
(* the chain of or so far.  The arguments of or are evaluated before or is *)
(* applied, so every wordlist is tried, whatever the earlier results.      *)

\* Wordlists that can parse the same phrase share a script.
Scripts ==
    { {"English", "French", "Italian", "Spanish"},
      {"ChineseSimplified", "ChineseTraditional"}, {"Japanese"}, {"Korean"} }

Mnemonics ==
    { [phrase |-> p, parses |-> w] :
        p \in {"phrase"}, w \in UNION { SUBSET s : s \in Scripts } }

ImportOptions ==
    { [EthereumOptions_default EXCEPT !.derivation = d, !.index = i] :
        d \in {Ethereum, Keepkey}, i \in {U32(0), U32(7)} }

InitImport ==
    /\ chain = U32(0)
    /\ cur \in { Some(o) : o \in ImportOptions }
    /\ wire \in Mnemonics
    /\ out = [op |-> "init", self |-> None, arg |-> <<>>, res |-> Ok(0)]
    /\ tampers = 0
    /\ calls = 0

ProcessMnemonic ==
    /\ calls < Len(Wordlists)
    /\ LET EW  == Wordlists[calls + 1]
           res == process_mnemonic(EW, wire, cur[1])
       IN  out' = [op |-> "process_mnemonic", self |-> cur, arg |-> <<EW>>,
                   res |-> IF calls = 0 THEN res ELSE Result_or(out.res, res)]
    /\ calls' = calls + 1
    /\ UNCHANGED <<chain, cur, wire, tampers>>

NextImport == ProcessMnemonic

SpecImport == InitImport /\ [][NextImport]_vars

----------------------------------------------------------------------------
(* Properties of the import                                                *)

\* The result the import must give when the wordlists are taken in the
\* given order: the wallet of the first that parses the phrase, and the
\* error of the last when none does.
RECURSIVE FirstParsing(_, _)
FirstParsing(order, mnemonic) ==
    IF order = <<>> THEN <<>>
    ELSE IF Head(order) \in mnemonic.parses THEN <<Head(order)>>
    ELSE FirstParsing(Tail(order), mnemonic)

ImportRule(order) ==
    /\ out.op = "process_mnemonic" => out.arg[1] = order[calls]
    /\ (out.op = "process_mnemonic" /\ calls = Len(order)) =>
          LET first == FirstParsing(order, wire)
          IN  IF first = <<>>
              THEN /\ out.res.tag = "Err"
                   /\ out.res.err = [kind |-> "MnemonicError", n |-> order[Len(order)]]
              ELSE /\ out.res.tag = "Ok"
                   /\ out.res.val[1].mnemonic[1].wordlist = first[1]
                   /\ out.res.val[1].path = to_derivation_path(cur[1], TRUE)

\* C21 as stated: the wordlists are tried in the order English, Chinese
\* Simplified, Chinese Traditional, French, Italian, Japanese, Korean,
\* Spanish; the result is the wallet of the first wordlist in that order that
\* parses the phrase, and the error of the last attempt if every one fails.
C21_WordlistOrder ==
    ImportRule(<< "English", "ChineseSimplified", "ChineseTraditional", "French",
                  "Italian", "Japanese", "Korean", "Spanish" >>)

\* C21: the wordlists are tried in the order Chinese Simplified, Chinese
\* Traditional, English, French, Italian, Japanese, Korean, Spanish; the
\* result is the wallet of the first wordlist in that order that parses the
\* phrase, and the error of the last attempt if every one fails.
C21_WordlistOrderChineseFirst ==
    ImportRule(<< "ChineseSimplified", "ChineseTraditional", "English", "French",
                  "Italian", "Japanese", "Korean", "Spanish" >>)

\* All eight wordlists have been tried on a phrase that English and French
\* both parse, and the English wallet is the result.
C21_Witness ==
    /\ out.op = "process_mnemonic"
    /\ calls = 8
    /\ wire.parses = {"English", "French"}
    /\ out.res.tag = "Ok"
    /\ out.res.val[1].mnemonic[1].wordlist = "English"

----------------------------------------------------------------------------
(* Part 6.  Zcash addresses (zcash/src/address.rs, public_key.rs) and the  *)
(* testnet prefixes (zcash/src/network/testnet.rs)                         *)

\* network::MAINNET_ADDRESS_BYTES and TESTNET_ADDRESS_BYTES.
MAINNET_ADDRESS_BYTES == <<28, 184>>
TESTNET_ADDRESS_BYTES == <<29, 37>>

\* secp256k1::PublicKey::serialize_uncompressed: 65 bytes, 0x04 then x and y
\* (y is kept as the point itself in the small group).
serialize_uncompressed(point) == <<4>> \o Scalar32(XOf(point)) \o Scalar32(point)

\* ZcashPublicKey::from_private_key.
ZcashPublicKey_from_private_key(private_key) ==
    [public_key |-> (Generator * private_key.secret_key) % GroupOrder,
     compressed |-> private_key.compressed]

\* ZcashAddress::unshielded(public_key, network).
unshielded(public_key, network) ==
    LET serialized    == IF public_key.compressed
                         THEN serialize(public_key.public_key)
                         ELSE serialize_uncompressed(public_key.public_key)
        network_bytes == IF network = "Testnet" THEN TESTNET_ADDRESS_BYTES
                         ELSE MAINNET_ADDRESS_BYTES
        head          == network_bytes \o hash160(serialized)
        address_bytes == head \o SubSeq(checksum(head), 1, 4)
    IN  Ok([address |-> to_base58(address_bytes), format |-> "Unshielded",
            network |-> network])

\* ZcashAddress::shielded(_public_key, _network): panic!.
shielded(public_key, network) == Abort("shieled addresses not implemented")

\* ZcashAddress::from_private_key(private_key, format).
ZcashAddress_from_private_key(private_key, format) ==
    LET public_key == ZcashPublicKey_from_private_key(private_key)
    IN  IF format # None /\ format[1][1] = "Shielded"
        THEN shielded(public_key, private_key.network)
        ELSE unshielded(public_key, private_key.network)

\* ZcashAddress::from_public_key(public_key, format).
ZcashAddress_from_public_key(public_key, format) ==
    IF format = None THEN unshielded(public_key, "Mainnet")
    ELSE IF format[1][1] = "Shielded" THEN shielded(public_key, format[1][2])
    ELSE unshielded(public_key, format[1][2])

----------------------------------------------------------------------------
(* Address requests as a state machine: cur is the private key the caller  *)
(* holds, out the last address operation.                                  *)

Networks == {"Mainnet", "Testnet"}

ZcashPrivateKeys ==
    [secret_key : {1, 5, 12}, compressed : BOOLEAN, network : Networks]

\* Option<(Format, Network)>.
AddressFormats ==
    {None} \cup { Some(<<f, n>>) : f \in {"Unshielded", "Shielded"}, n \in Networks }

InitZcash ==
    /\ chain = U32(0)
    /\ cur \in { Some(k) : k \in ZcashPrivateKeys }
    /\ wire = <<>>
    /\ out = [op |-> "init", self |-> None, arg |-> <<>>, res |-> Ok(0)]
    /\ tampers = 0
    /\ calls = 0

ZcashFromPrivateKey(format) ==
    /\ out.op = "init"
    /\ out' = [op |-> "from_private_key", self |-> None, arg |-> <<cur[1], format>>,
               res |-> ZcashAddress_from_private_key(cur[1], format)]
    /\ UNCHANGED <<chain, cur, wire, tampers, calls>>

ZcashFromPublicKey(format) ==
    /\ out.op = "init"
    /\ LET public_key == ZcashPublicKey_from_private_key(cur[1])
       IN  out' = [op |-> "from_public_key", self |-> None,
                   arg |-> <<public_key, format>>,
                   res |-> ZcashAddress_from_public_key(public_key, format)]
    /\ UNCHANGED <<chain, cur, wire, tampers, calls>>

NextZcash ==
    \/ \E format \in AddressFormats : ZcashFromPrivateKey(format)
    \/ \E format \in AddressFormats : ZcashFromPublicKey(format)

SpecZcash == InitZcash /\ [][NextZcash]_vars

----------------------------------------------------------------------------
(* Properties of Zcash addresses                                           *)

IsAddressOperation == out.op \in {"from_private_key", "from_public_key"}

\* C22: a request for a shielded address (from_private_key or from_public_key
\* with Format::Shielded) yields an UnsupportedFormat error value, and no
\* address operation aborts the process.
C22_ShieldedIsAnError ==
    /\ IsAddressOperation => out.res.tag # "Abort"
    /\ (/\ IsAddressOperation
        /\ out.arg[2] # None
        /\ out.arg[2][1][1] = "Shielded") =>
            out.res.tag = "Err" /\ out.res.err.kind = "UnsupportedFormat"

\* Requests for unshielded addresses return an address and do not abort.
C22_UnshieldedReturns ==
    (IsAddressOperation /\ (out.arg[2] = None \/ out.arg[2][1][1] = "Unshielded")) =>
        out.res.tag = "Ok" /\ Len(out.res.val[1].address) > 0

----------------------------------------------------------------------------
(* Part 7.  Monero: encode_varint and the one-time keys                    *)
(* (monero/src/transaction.rs).  A u64 is its eight little-endian bytes.   *)

\* n >> 7 of a u64.
Shr7(n) ==
    [i \in 1..8 |-> (n[i] \div 128) + 2 * ((IF i < 8 THEN n[i + 1] ELSE 0) % 128)]

\* The loop of encode_varint: the 7-bit groups of n, lowest first, until the
\* rest is zero (at least one group).
RECURSIVE varint_groups(_)
varint_groups(n) ==
    LET bits == n[1] % 128
        rest == Shr7(n)
    IN  <<bits>> \o (IF IsZero(rest) THEN <<>> ELSE varint_groups(rest))

\* Mutant of with_continuation: the byte is pushed as it is.
with_continuation_unset(bits) == bits

\* *bits | 0b1000_0000
with_continuation(bits) == IF bits >= 128 THEN bits ELSE bits + 128

\* MoneroTransaction::encode_varint(index).
encode_varint(idx) ==
    LET res == varint_groups(idx)
    IN  IF res = <<>> THEN <<0>>
        ELSE [i \in 1..(Len(res) - 1) |-> with_continuation(res[i])]
                 \o <<res[Len(res)]>>

----------------------------------------------------------------------------
(* encode_varint as a state machine: cur is the index, out the encoding.   *)

\* 2^k as a u64.
Pow2(k) == [i \in 1..8 |-> IF i = (k \div 8) + 1 THEN 2 ^ (k % 8) ELSE 0]

\* 2^k - 1 as a u64.
Pow2Minus1(k) ==
    [i \in 1..8 |-> IF i < (k \div 8) + 1 THEN 255
                    ELSE IF i = (k \div 8) + 1 THEN 2 ^ (k % 8) - 1 ELSE 0]

\* The indexes encoded: zero, the powers of two and their predecessors, the
\* largest u64 and a few values with mixed groups.
VarintIndexes ==
    { Pow2(k) : k \in 0..63 } \cup { Pow2Minus1(k) : k \in 0..63 }
    \cup { Rep(8, 255), <<44, 1, 0, 0, 0, 0, 0, 0>>, <<0, 0, 1, 0, 0, 0, 0, 128>>,
           <<128, 128, 128, 128, 128, 128, 128, 128>> }

InitVarint ==
    /\ chain = U32(0)
    /\ cur \in { Some(n) : n \in VarintIndexes }
    /\ wire = <<>>
    /\ out = [op |-> "init", self |-> None, arg |-> <<>>, res |-> Ok(0)]
    /\ tampers = 0
    /\ calls = 0

EncodeVarint ==
    /\ out.op = "init"
    /\ wire' = encode_varint(cur[1])
    /\ out' = [op |-> "encode_varint", self |-> None, arg |-> <<cur[1]>>,
               res |-> Ok(encode_varint(cur[1]))]
    /\ UNCHANGED <<chain, cur, tampers, calls>>

NextVarint == EncodeVarint

SpecVarint == InitVarint /\ [][NextVarint]_vars

----------------------------------------------------------------------------
(* Properties of encode_varint                                             *)

\* The value of a little-endian base-128 byte string, as little-endian bytes
\* (eight, and one more for every byte read).
RECURSIVE VarintValue(_)
VarintValue(bytes) ==
    IF bytes = <<>> THEN Rep(8, 0)
    ELSE MulLE(VarintValue(Tail(bytes)), 128, Head(bytes) % 128)

\* The 7-bit group k (from 1, lowest first) of a u64, read off its bits.
GroupOf(n, k) ==
    LET p    == 7 * (k - 1)
        low  == IF p \div 8 + 1 <= 8 THEN n[p \div 8 + 1] ELSE 0
        high == IF p \div 8 + 2 <= 8 THEN n[p \div 8 + 2] ELSE 0
    IN  ((low + 256 * high) \div (2 ^ (p % 8))) % 128

\* n < 128 for a u64.
Below128(n) == n[1] < 128 /\ \A i \in 2..8 : n[i] = 0

\* C23: encode_varint(n) is the little-endian base-128 encoding of n: 7-bit
\* groups least significant first, the high bit set on every byte except the
\* last, exactly one byte when n < 128, no final zero group unless n = 0, and
\* decoding the bytes gives back n.
C23_VarintEncoding ==
    out.op = "encode_varint" =>
        LET n   == out.arg[1]
            enc == out.res.val[1]
            len == Len(enc)
        IN  /\ out.res.tag = "Ok"
            /\ len \in 1..10
            /\ \A k \in 1..len : enc[k] % 128 = GroupOf(n, k)
            /\ \A k \in 1..(len - 1) : enc[k] >= 128
            /\ enc[len] < 128
            /\ Below128(n) <=> len = 1
            /\ enc[len] = 0 => IsZero(n)
            /\ VarintValue(enc) = n \o Rep(len, 0)

\* The largest u64 has been encoded, in ten bytes.
C23_Witness ==
    /\ out.op = "encode_varint"
    /\ out.arg[1] = Rep(8, 255)
    /\ Len(out.res.val[1]) = 10
    /\ out.res.val[1][10] = 1

----------------------------------------------------------------------------
(* Part 8.  The transaction pipeline on networks whose chain id fits in    *)
(* one byte (ethereum/src/transaction.rs)                                  *)

\* Chain ids of one byte: the ends of the range, the networks 1 and 42, and
\* the values around which v = recovery_id + chain_id * 2 + 35 reaches 256.
ByteChainIds == {0, 1, 42, 109, 110, 111, 128, 255}

InitByte ==
    /\ chain \in { U32(c) : c \in ByteChainIds }
    /\ cur = None
    /\ wire = <<>>
    /\ out = [op |-> "init", self |-> None, arg |-> <<>>, res |-> Ok(0)]
    /\ tampers = 0
    /\ calls = 0

NextByte ==
    \/ \E receiver \in Receivers, amount \in Amounts, parameters \in Parameters :
          New(receiver, amount, parameters)
    \/ \E private_key \in PrivateKeys : Sign(private_key)
    \/ ToTransactionBytes

SpecByte == InitByte /\ [][NextByte]_vars

----------------------------------------------------------------------------
(* Properties of one-byte chain ids                                        *)

\* The chain_id item of an encoded raw transaction and the v of a freshly
\* signed one are the minimal big-endian bytes of their values, on the
\* networks whose chain id is in ids.
CanonicalOn(ids) ==
    chain[1] \in ids =>
        /\ (out.op = "to_transaction_bytes" /\ IsRaw(out.self[1]) /\ out.res.tag = "Ok") =>
              decode_list(out.res.val[1]).val[1][7] = BEBytes(chain[1])
        /\ (out.op = "sign" /\ IsRaw(out.self[1]) /\ out.res.tag = "Ok") =>
              out.res.val[1].signature[1].v
                  = BEBytes(SignerRecoveryId + chain[1] * 2 + 35)

\* C24: for every chain id that fits in one byte (0 to 255), to_bytes yields
\* the minimal big-endian encoding RLP requires for integers (no leading zero
\* bytes, zero as the empty byte string), so the chain_id placeholder and v
\* are encoded canonically on such networks.
C24_OneByteChainIdsCanonical == CanonicalOn(0..255)

\* The same on the chain ids from 1 to 109, for which v stays below 256.
C24_CanonicalUpTo109 == CanonicalOn(1..109)

----------------------------------------------------------------------------
(* Further properties of the extended public key                           *)

\* C25: every extended public key returned by ckd_pub has depth equal to its
\* parent's depth plus one and child_number equal to the requested index; the
\* depth stays within 0..255 along any chain of ckd_pub calls, because a
\* parent at depth 255 is refused with MaximumChildDepthReached(255).
C25_DepthAndChildNumber ==
    out.op = "ckd_pub" =>
        /\ out.self[1].depth \in 0..255
        /\ out.res.tag = "Ok" =>
              /\ out.res.val[1].depth = out.self[1].depth + 1
              /\ out.res.val[1].depth \in 1..255
              /\ out.res.val[1].child_number = out.arg[1]
        /\ out.self[1].depth = 255 =>
              /\ out.res.tag = "Err"
              /\ out.res.err = [kind |-> "MaximumChildDepthReached", n |-> 255]

\* A child at depth 255 has been derived, and then asked for a child.
C25_Witness ==
    /\ out.op = "ckd_pub"
    /\ calls = 2
    /\ out.self[1].depth = 255
    /\ out.self[1].child_number = U32(1)
    /\ out.res.err.kind = "MaximumChildDepthReached"

\* ckd_pub applied along a sequence of indexes, stopping at the first error.
RECURSIVE FoldCkdPub(_, _)
FoldCkdPub(key, indexes) ==
    IF indexes = <<>> THEN Ok(key)
    ELSE LET child == ckd_pub(key, Head(indexes))
         IN  IF child.tag # "Ok" THEN child
             ELSE FoldCkdPub(child.val[1], Tail(indexes))

\* A component that is a decimal number below 2^31.
IsNormalComponent(token) == IsDecimal(token) /\ ~AtLeast2Pow31(DecNat(token))

\* The u32 such a component denotes.
ComponentIndex(token) ==
    LET n == DecNat(token) IN n \o Rep(4 - Len(n), 0)

\* C26: derivation_path with the path m returns the key unchanged, and with
\* a path m/i1/.../ik of non-hardened indexes returns what ckd_pub(i1), ...,
\* ckd_pub(ik) applied in that order return, the error of the first ckd_pub
\* that fails included.
C26_PathIsFoldOfCkdPub ==
    LET path_vec == split(out.arg[1])
        tokens   == Tail(path_vec)
    IN  (/\ out.op = "derivation_path"
         /\ path_vec[1] = <<"m">>
         /\ \A i \in 1..Len(tokens) : IsNormalComponent(tokens[i])) =>
            /\ out.res = FoldCkdPub(from_extended_private_key(out.self[1]),
                                    [i \in 1..Len(tokens) |-> ComponentIndex(tokens[i])])
            /\ tokens = <<>> => out.res = Ok(from_extended_private_key(out.self[1]))

\* The path m/0/1 has been followed from a key of depth 0.
C26_Witness ==
    /\ out.op = "derivation_path"
    /\ out.arg[1] = <<"m", "/", "0", "/", "1">>
    /\ out.self[1].depth = 0
    /\ out.res.tag = "Ok"
    /\ out.res.val[1].depth = 2
    /\ out.res.val[1].child_number = U32(1)

----------------------------------------------------------------------------
(* Further properties of the derivation presets                            *)

\* C27: on options for which no derivation was provided, to_derivation_path
\* returns the default path m/44'/60'/0'/<index> only when its default
\* argument is enabled; with default disabled it returns no path, so that an
\* imported extended key is used as it is.
C27_NoPathWithoutDerivation ==
    (out.op = "to_derivation_path" /\ wire.derivation = None) =>
        IF out.arg[1]
        THEN out.res.val[1] = Some(PresetPath(Ethereum, cur[1].index))
        ELSE out.res.val[1] = None

\* With default enabled and no derivation provided, the default path.
C27_DefaultPathWhenEnabled ==
    (out.op = "to_derivation_path" /\ wire.derivation = None /\ out.arg[1]) =>
        out.res.val[1] = Some(PresetPath(Ethereum, cur[1].index))

----------------------------------------------------------------------------
(* Part 9.  The hd subcommand of the Ethereum command line                 *)
(* (wagyu/cli/ethereum.rs: parse, new_hd, print)                           *)

\* EthereumOptions::count(&mut self, argument).
count(self, argument) ==
    IF argument = None THEN self ELSE [self EXCEPT !.count = argument[1]]

\* EthereumOptions::word_count(&mut self, argument).
word_count(self, argument) ==
    IF argument = None THEN self ELSE [self EXCEPT !.word_count = argument[1]]

\* EthereumCLI::parse for the subcommand hd: count, then derivation, then
\* word count are read from the arguments into the default options.
parse_hd(arguments) ==
    word_count(derivation(count(EthereumOptions_default, arguments.count),
                          arguments.derivation),
               arguments.word_count)

\* EthereumMnemonic::<W>::new(word_count, rng): a phrase of 12, 15, 18, 21 or
\* 24 words drawn from rng, an error for any other word count.
EthereumMnemonic_new(words, rng) ==
    IF words \in {12, 15, 18, 21, 24}
    THEN Ok([word_count |-> words, entropy |-> rng])
    ELSE Err("InvalidWordCount", words)

\* EthereumDerivationPath::from_str: the derivation-path parser.
EthereumDerivationPath_from_str(path) == BitcoinDerivationPath_from_str(path)

\* EthereumWallet::new_hd::<W, _>(rng, word_count, password, path).
new_hd(rng, words, path) ==
    LET mnemonic == EthereumMnemonic_new(words, rng)
    IN  IF Failed(mnemonic) THEN mnemonic
        ELSE LET parsed == EthereumDerivationPath_from_str(path)
             IN  IF Failed(parsed) THEN parsed
                 ELSE Ok([path |-> Some(path), mnemonic |-> Some(mnemonic.val[1])])

\* The closure of flat_map: vec![wallet] for Ok(wallet), vec![] otherwise.
hd_wallet(res) == IF res.tag = "Ok" THEN <<res.val[1]>> ELSE <<>>

\* (0..options.count).flat_map(..).collect(): rngs[i] is what the i-th
\* wallet draws.
RECURSIVE hd_wallets(_, _, _)
hd_wallets(options, path, rngs) ==
    IF rngs = <<>> THEN <<>>
    ELSE hd_wallet(new_hd(Head(rngs), options.word_count, path))
             \o hd_wallets(options, path, Tail(rngs))

\* EthereumCLI::print for the subcommand hd: Ok(()) once the wallets built
\* are printed; the result carries what was printed.
print_hd(options, rngs) ==
    Ok(hd_wallets(options, to_derivation_path(options, TRUE)[1], rngs))

----------------------------------------------------------------------------
(* The hd subcommand as a state machine: wire holds the arguments given,   *)
(* cur the options parsed from them, out the last step.                    *)

CountArguments == {0, 1, 2}

WordCountArguments == {12, 13, 24}

HdDerivationArguments ==
    { Keepkey, LedgerLive, <<"m", "/", "0">>, <<"m", "/", "4", "4", "'", "/", "0">>,
      <<"m", "/", "/", "0">>, <<"n">>, <<"m", "/", "0", "x">> }

\* What a wallet may draw from the random number generator.
Entropies == {1, 2}

InitHd ==
    /\ chain = U32(0)
    /\ cur = None
    /\ wire \in [ count      : {None} \cup { Some(c) : c \in CountArguments },
                  derivation : {None} \cup { Some(d) : d \in HdDerivationArguments },
                  word_count : {None} \cup { Some(w) : w \in WordCountArguments } ]
    /\ out = [op |-> "init", self |-> None, arg |-> <<>>, res |-> Ok(0)]
    /\ tampers = 0
    /\ calls = 0

ParseHd ==
    /\ out.op = "init"
    /\ cur' = Some(parse_hd(wire))
    /\ out' = [op |-> "parse", self |-> None, arg |-> <<wire>>,
               res |-> Ok(parse_hd(wire))]
    /\ UNCHANGED <<chain, wire, tampers, calls>>

PrintHd ==
    /\ out.op = "parse"
    /\ \E rngs \in [1..cur[1].count -> Entropies] :
          out' = [op |-> "print", self |-> cur, arg |-> <<rngs>>,
                  res |-> print_hd(cur[1], rngs)]
    /\ UNCHANGED <<chain, cur, wire, tampers, calls>>

NextHd ==
    \/ ParseHd
    \/ PrintHd

SpecHd == InitHd /\ [][NextHd]_vars

----------------------------------------------------------------------------
(* Properties of the hd subcommand                                         *)

\* Whether generating a wallet from the options fails, whatever is drawn.
GenerationFails(options) ==
    \A rng \in Entropies :
        new_hd(rng, options.word_count, to_derivation_path(options, TRUE)[1]).tag # "Ok"

\* C28: when wallet generation fails under the hd subcommand (an unsupported
\* word count, a malformed custom path), print returns that error and does
\* not succeed with fewer than count wallets.
C28_HdErrorsReturned ==
    out.op = "print" =>
        /\ out.res.tag = "Ok" => Len(out.res.val[1]) = out.self[1].count
        /\ (out.self[1].count > 0 /\ GenerationFails(out.self[1])) =>
              /\ out.res.tag = "Err"
              /\ out.res.err
                    = new_hd(1, out.self[1].word_count,
                             to_derivation_path(out.self[1], TRUE)[1]).err

\* When generation does not fail, print succeeds with count wallets.
C28_HdWalletsWhenNoError ==
    (out.op = "print" /\ ~GenerationFails(out.self[1])) =>
        out.res.tag = "Ok" /\ Len(out.res.val[1]) = out.self[1].count

----------------------------------------------------------------------------
(* Part 10.  Address prefixes of the Zcash test network                    *)
(* (zcash/src/network/testnet.rs)                                          *)

\* "ztestsapling".as_bytes().
ZTESTSAPLING == <<122, 116, 101, 115, 116, 115, 97, 112, 108, 105, 110, 103>>

\* Mutant of to_address_prefix: Sapling emits the Sprout prefix.
to_address_prefix_without_sapling(format) ==
    CASE format.kind = "P2PKH" -> <<29, 37>>
      [] format.kind = "P2SH" -> <<28, 186>>
      [] OTHER -> <<22, 182>>

\* Testnet::to_address_prefix(format).
to_address_prefix(format) ==
    CASE format.kind = "P2PKH" -> <<29, 37>>
      [] format.kind = "P2SH" -> <<28, 186>>
      [] format.kind = "Sprout" -> <<22, 182>>
      [] format.kind = "Sapling" -> ZTESTSAPLING

\* Testnet::from_address_prefix(prefix).
from_address_prefix(prefix) ==
    IF Len(prefix) < 2 THEN Err("InvalidPrefixLength", Len(prefix))
    ELSE IF prefix[2] \in {37, 186, 182, 116} THEN Ok("Testnet")
    ELSE Err("InvalidPrefix", prefix)

----------------------------------------------------------------------------
(* The prefixes as a state machine: wire holds a prefix read from an       *)
(* address, cur the prefix last emitted, out the last call.                *)

\* Format::Sapling(_) carries an optional diversifier.
PrefixFormats ==
    [kind : {"P2PKH", "P2SH", "Sprout"}, data : {None}]
        \cup [kind : {"Sapling"}, data : {None, Some(1)}]

PrefixBytes == {22, 28, 29, 37, 116, 122, 182, 186}

PrefixInputs ==
    {<<>>} \cup { <<a>> : a \in PrefixBytes }
           \cup { <<a, b>> : a \in {22, 29, 122}, b \in PrefixBytes }
           \cup { <<a, b, c>> : a \in {29}, b \in {29, 37, 116}, c \in {37, 116} }

InitPrefix ==
    /\ chain = U32(0)
    /\ cur = None
    /\ wire \in PrefixInputs
    /\ out = [op |-> "init", self |-> None, arg |-> <<>>, res |-> Ok(0)]
    /\ tampers = 0
    /\ calls = 0

ToAddressPrefix ==
    /\ \E format \in PrefixFormats :
          /\ cur' = Some(to_address_prefix(format))
          /\ out' = [op |-> "to_address_prefix", self |-> None, arg |-> <<format>>,
                     res |-> Ok(to_address_prefix(format))]
    /\ UNCHANGED <<chain, wire, tampers, calls>>

FromAddressPrefix ==
    /\ \E prefix \in {wire} \cup (IF cur = None THEN {} ELSE {cur[1]}) :
          out' = [op |-> "from_address_prefix", self |-> None, arg |-> <<prefix>>,
                  res |-> from_address_prefix(prefix)]
    /\ UNCHANGED <<chain, cur, wire, tampers, calls>>

NextPrefix ==
    \/ ToAddressPrefix
    \/ FromAddressPrefix

SpecPrefix == InitPrefix /\ [][NextPrefix]_vars

----------------------------------------------------------------------------
(* Properties of the test network's prefixes                               *)

\* C29: to_address_prefix emits only prefixes whose second byte is 0x25,
\* 0xBA or 0xB6, over all formats, so that no format emits a prefix that
\* reaches the 0x74 branch of from_address_prefix.
C29_NoEmitterFor0x74 ==
    /\ out.op = "to_address_prefix" => out.res.val[1][2] \in {37, 186, 182}
    /\ cur # None => cur[1][2] # 116

\* C29, as the code has it: the second byte emitted is 0x25 for P2PKH, 0xBA
\* for P2SH, 0xB6 for Sprout and 0x74 (the t of "ztestsapling") for Sapling;
\* from_address_prefix accepts exactly the prefixes of two bytes or more
\* whose second byte is one of these four, so every emitted prefix is
\* accepted and the 0x74 branch is the one Sapling prefixes reach.
C29_SaplingEmits0x74 ==
    /\ out.op = "to_address_prefix" =>
          /\ out.res.val[1][2] \in {37, 186, 182, 116}
          /\ out.res.val[1][2] = 116 <=> out.arg[1].kind = "Sapling"
          /\ out.res.val[1][2] = 37 <=> out.arg[1].kind = "P2PKH"
          /\ out.res.val[1][2] = 186 <=> out.arg[1].kind = "P2SH"
          /\ out.res.val[1][2] = 182 <=> out.arg[1].kind = "Sprout"
    /\ out.op = "from_address_prefix" =>
          /\ out.res.tag = "Ok" <=>
                (Len(out.arg[1]) >= 2 /\ out.arg[1][2] \in {37, 186, 182, 116})
          /\ (cur # None /\ out.arg[1] = cur[1]) => out.res.tag = "Ok"
          /\ Len(out.arg[1]) < 2 =>
                out.res.err = [kind |-> "InvalidPrefixLength", n |-> Len(out.arg[1])]

\* A Sapling prefix has been emitted and read back through the 0x74 branch.
C29_Witness ==
    /\ out.op = "from_address_prefix"
    /\ cur # None
    /\ out.arg[1] = cur[1]
    /\ cur[1] = ZTESTSAPLING
    /\ out.arg[1][2] = 116
    /\ out.res = Ok("Testnet")

----------------------------------------------------------------------------
(* Part 11.  Monero one-time keys (monero/src/transaction.rs)              *)
(*                                                                         *)
(* Ed25519 is stood for by the group of non-zero residues modulo 23,       *)
(* written multiplicatively: it has 22 elements, cofactor 2, and its       *)
(* subgroup of prime order l = 11 is generated by the base point 2.  A     *)
(* compressed point is one byte, which decompresses when it is a non-zero  *)
(* residue; a key is one byte where the code has thirty-two.               *)

EdField == 23

\* The order l of the base point.
EdOrder == 11

ED25519_BASEPOINT == 2

\* point + point on the curve.
point_add(P, Q) == (P * Q) % EdField

\* scalar * point, by the bits the scalar holds, reduced or not.
RECURSIVE scalar_mul(_, _)
scalar_mul(k, P) ==
    IF k = 0 THEN 1
    ELSE IF k % 2 = 0 THEN scalar_mul(k \div 2, point_add(P, P))
    ELSE point_add(P, scalar_mul(k \div 2, point_add(P, P)))

\* CompressedEdwardsY::from_slice(bytes).decompress().
decompress(byte) == IF byte \in 1..(EdField - 1) THEN Some(byte) ELSE None

\* EdwardsPoint::compress().to_bytes().
compress(P) == P

\* Scalar::from_bits: the bytes with the highest bit cleared, not reduced.
from_bits(byte) == byte % 128

\* Scalar::from_bytes_mod_order.
from_bytes_mod_order(digest) == digest % EdOrder

\* scalar + scalar, which reduces its sum modulo l.
scalar_add(a, b) == (a + b) % EdOrder

\* MoneroTransaction::derivation_to_scalar(derivation, output_index).
derivation_to_scalar(d, output_index) ==
    from_bytes_mod_order(keccak256(d \o encode_varint(output_index)))

\* Mutant of derive_public_key: the output index is left out of the hash.
derive_public_key_unindexed(d, output_index, public_spend_key) ==
    LET public_point == decompress(public_spend_key)
    IN  IF public_point = None THEN Err("EdwardsPointError", public_spend_key)
        ELSE Ok(compress(point_add(public_point[1],
                    scalar_mul(from_bytes_mod_order(keccak256(d)), ED25519_BASEPOINT))))

\* MoneroTransaction::derive_public_key(derivation, output_index, public_spend_key).
derive_public_key(d, output_index, public_spend_key) ==
    LET public_point == decompress(public_spend_key)
    IN  IF public_point = None THEN Err("EdwardsPointError", public_spend_key)
        ELSE LET derivation_at_index ==
                     scalar_mul(derivation_to_scalar(d, output_index), ED25519_BASEPOINT)
             IN  Ok(compress(point_add(public_point[1], derivation_at_index)))

\* MoneroTransaction::derive_secret_key(derivation, output_index, private_spend_key).
derive_secret_key(d, output_index, private_spend_key) ==
    LET secret == from_bits(private_spend_key)
        derivation_at_index == derivation_to_scalar(d, output_index)
    IN  scalar_add(derivation_at_index, secret)

----------------------------------------------------------------------------
(* The one-time keys as a state machine: wire holds the key derivation,    *)
(* the output index and the spend keys, cur the keys derived so far.       *)

KeyDerivations == { <<1>>, <<7, 3>>, <<200, 0, 9>> }

OutputIndexes ==
    { Pow2(0), Pow2(7), Pow2(14), Pow2Minus1(0), Pow2Minus1(7), Rep(8, 255) }

\* Private spend keys, some of them not reduced modulo l.
PrivateSpendKeys == {0, 1, 5, 10, 11, 17, 100, 255}

\* The public spend key of a private one, and two bytes that are no point.
PublicSpendKeys(b) ==
    { compress(scalar_mul(from_bits(b), ED25519_BASEPOINT)), 0, 23 }

InitOneTime ==
    /\ chain = U32(0)
    /\ cur = [secret |-> None, public |-> None]
    /\ \E d \in KeyDerivations, i \in OutputIndexes, b \in PrivateSpendKeys :
          \E B \in PublicSpendKeys(b) :
              wire = [derivation |-> d, output_index |-> i,
                      private_spend_key |-> b, public_spend_key |-> B]
    /\ out = [op |-> "init", self |-> None, arg |-> <<>>, res |-> Ok(0)]
    /\ tampers = 0
    /\ calls = 0

DeriveSecretKey ==
    LET secret == derive_secret_key(wire.derivation, wire.output_index,
                                    wire.private_spend_key)
    IN  /\ cur.secret = None
        /\ cur' = [cur EXCEPT !.secret = Some(secret)]
        /\ out' = [op |-> "derive_secret_key", self |-> None,
                   arg |-> <<wire.derivation, wire.output_index, wire.private_spend_key>>,
                   res |-> Ok(secret)]
        /\ UNCHANGED <<chain, wire, tampers, calls>>

DerivePublicKey ==
    LET public == derive_public_key(wire.derivation, wire.output_index,
                                    wire.public_spend_key)
    IN  /\ cur.public = None
        /\ cur' = [cur EXCEPT !.public = Some(public)]
        /\ out' = [op |-> "derive_public_key", self |-> None,
                   arg |-> <<wire.derivation, wire.output_index, wire.public_spend_key>>,
                   res |-> public]
        /\ UNCHANGED <<chain, wire, tampers, calls>>

NextOneTime ==
    \/ DeriveSecretKey
    \/ DerivePublicKey

SpecOneTime == InitOneTime /\ [][NextOneTime]_vars

----------------------------------------------------------------------------
(* Properties of the one-time keys                                         *)

\* The spend keys are a pair: B = b*G.
SpendKeyPair ==
    decompress(wire.public_spend_key)
        = Some(scalar_mul(from_bits(wire.private_spend_key), ED25519_BASEPOINT))

\* h = derivation_to_scalar(d, i), from the hash of d and the varint of i.
OneTimeScalar ==
    (keccak256(wire.derivation \o encode_varint(wire.output_index))) % EdOrder

\* C30: for every key derivation d, output index i and spend key pair
\* (b, B = b*G), derive_secret_key returns h + b and derive_public_key
\* returns h*G + B for the same h = derivation_to_scalar(d, i), so that the
\* secret multiplied by G is the public key.
C30_OneTimeKeyConsistency ==
    SpendKeyPair =>
        /\ cur.secret # None =>
              cur.secret[1] = (OneTimeScalar + (wire.private_spend_key % 128)) % EdOrder
        /\ cur.public # None =>
              cur.public[1]
                  = Ok(point_add(scalar_mul(OneTimeScalar, ED25519_BASEPOINT),
                                 wire.public_spend_key))
        /\ (cur.secret # None /\ cur.public # None) =>
              Ok(scalar_mul(cur.secret[1], ED25519_BASEPOINT)) = cur.public[1]

\* Both keys have been derived from a pair whose private key is not reduced,
\* at an index whose varint has more than one byte, with h not zero.
C30_Witness ==
    /\ SpendKeyPair
    /\ cur.secret # None
    /\ cur.public # None
    /\ cur.public[1].tag = "Ok"
    /\ wire.private_spend_key > EdOrder
    /\ Len(encode_varint(wire.output_index)) > 1
    /\ OneTimeScalar # 0
    /\ scalar_mul(cur.secret[1], ED25519_BASEPOINT) = cur.public[1].val[1]

=============================================================================
